---------------------------- MODULE Spec2Model ----------------------------
(***************************************************************************)
(* A model of the Selenium site crawler and change tracker of src/3.py:    *)
(* URL canonicalisation (normalize_url), the multi-threaded crawl with its *)
(* visited set and content-hash table (crawl / worker), the change         *)
(* detector (detect_changes) and main; and of the other scripts of the     *)
(* repository.                                                             *)
(*                                                                         *)
(* The specifications of the module:                                       *)
(*   Spec        the crawl: main thread and worker threads, one step per   *)
(*               access to shared state                                    *)
(*   SpecDetect  detect_changes applied to every pair of bounded dicts     *)
(*   SpecNorm    normalize_url applied twice to every bounded href         *)
(*   SpecMain    main of src/3.py over several runs                        *)
(*   SpecMail    the crawl of src/mains.py                                 *)
(*   SpecBatch   crawl_website of src/s.py                                 *)
(*   SpecSnap    compare_snapshots of src/Changes.py                       *)
(*   SpecDiffs   generate_diffs of src/mains.py                            *)
(*   SpecNew2    the recursive crawl of src/new2.py                        *)
(* Each leaves the variables of the others at their idle values.           *)
(***************************************************************************)
EXTENDS Naturals, Integers, Sequences, FiniteSets, TLC

(***************************************************************************)
(* URLS                                                                    *)
(*                                                                         *)
(* A URL string is modelled by its parts.  The scheme is always https, and *)
(* there is no query.  path is the sequence of the segments that follow    *)
(* each "/" of the path string:                                            *)
(*    "https://ex.com"        path = << >>                                 *)
(*    "https://ex.com/"       path = << "" >>                              *)
(*    "https://ex.com/a/"     path = << "a", "" >>                         *)
(* kind "abs" is an absolute URL, kind "path" a reference that starts with *)
(* "/" (or, with an empty path, a reference that is empty once its         *)
(* fragment and surrounding blanks are removed: "#top", "  ").  kind       *)
(* "other" is a URL of another scheme that has no authority, such as       *)
(* "mailto:x" or "javascript:void(0)".  frag says whether the string       *)
(* carries a "#..." fragment.  NoUrl is the empty string.  Two records are *)
(* equal exactly when the strings are.                                     *)
(***************************************************************************)
NoUrl == [kind |-> "empty", netloc |-> "", path |-> << >>, frag |-> FALSE]

MkUrl(host, p) == [kind |-> "abs", netloc |-> host, path |-> p, frag |-> FALSE]

MkRef(p, f) == [kind |-> "path", netloc |-> "", path |-> p, frag |-> f]

\* The default-document names of normalize_url's endswith test.
DefaultDocs == {"index.php", "index.html", "home.html", "default.html"}

\* href.strip().split('#', 1)[0]
StripFragment(href) == [href EXCEPT !.frag = FALSE]

\* urllib.parse.urljoin(base, href) for a base that is an absolute URL: an
\* absolute href and one of another scheme stand for themselves, a "/..."
\* reference takes the base's authority, an empty reference is the base.
urljoin(base, href) ==
    IF href.kind \in {"abs", "other"} THEN href
    ELSE IF href.path = << >> THEN base
    ELSE [kind |-> "abs", netloc |-> base.netloc, path |-> href.path,
          frag |-> href.frag]

\* path.endswith(('/index.php', '/index.html', '/home.html', '/default.html'))
EndsWithDefaultDoc(p) == Len(p) > 0 /\ p[Len(p)] \in DefaultDocs

\* path[:path.rfind('/') + 1]: the path up to and including its last "/"
CutLastSegment(p) == [p EXCEPT ![Len(p)] = ""]

\* abs_url.endswith('/'), for a URL without fragment
EndsWithSlash(u) == Len(u.path) > 0 /\ u.path[Len(u.path)] = ""

\* str.rstrip('/') on the URL string: every trailing "/" goes
RECURSIVE RStripSlash(_)
RStripSlash(p) ==
    IF Len(p) > 0 /\ p[Len(p)] = "" THEN RStripSlash(SubSeq(p, 1, Len(p) - 1))
    ELSE p

normalize_url(href, base) ==
    IF href = NoUrl THEN NoUrl
    ELSE LET abs_url == urljoin(base, StripFragment(href))
             u1 == IF EndsWithDefaultDoc(abs_url.path)
                   THEN [abs_url EXCEPT !.path = CutLastSegment(abs_url.path)]
                   ELSE abs_url
         IN  IF EndsWithSlash(u1)
             THEN [u1 EXCEPT !.path = RStripSlash(u1.path)]
             ELSE u1

\* is_same_domain accepting the subdomains of base_netloc as well.
is_same_domainSubdomains(url, base_netloc) ==
    IF url = NoUrl THEN FALSE
    ELSE url.netloc = base_netloc \/ url.netloc = "sub.ex.com"

\* urllib.parse.urlparse(url).netloc == base_netloc
is_same_domain(url, base_netloc) ==
    IF url = NoUrl THEN FALSE ELSE url.netloc = base_netloc


(***************************************************************************)
(* DICTS AND detect_changes                                                *)
(*                                                                         *)
(* A Python dict keeps insertion order: it is modelled as the sequence of  *)
(* its entries [k, v] in insertion order, with distinct keys.  Filenames   *)
(* are strings; FileNames lists the modelled ones in ascending string      *)
(* order, which is the order sorted() uses.  None is a value that is no    *)
(* content string; the empty string is a content string.                   *)
(***************************************************************************)
FileNames == << "a.md", "b.md", "c.md" >>

Contents == {"", "X", "Y", "Z", "Q"}

None == "<None>"

\* The most entries of a modelled dict.
MaxEntries == 2

FileSet == {FileNames[i] : i \in DOMAIN FileNames}

Rank(f) == CHOOSE i \in DOMAIN FileNames : FileNames[i] = f

Keys(d) == {d[i].k : i \in DOMAIN d}

\* dict.get(f): the value, or None
Get(d, f) ==
    IF f \in Keys(d) THEN d[CHOOSE i \in DOMAIN d : d[i].k = f].v ELSE None

\* str.encode('utf-8'): a bytes object, which is not a str
Utf8Encode(s) == [bytes |-> s]

CHANGE_TYPE_ADDED == "added"

CHANGE_TYPE_UPDATED == "updated"

CHANGE_TYPE_DELETED == "deleted"

\* sorted(S) for a set of filenames
RECURSIVE sorted(_)
sorted(S) ==
    IF S = {} THEN << >>
    ELSE LET m == CHOOSE x \in S : \A y \in S : Rank(x) <= Rank(y)
         IN  << m >> \o sorted(S \ {m})

\* Python truthiness: None and the empty string are false.
Truthy(x) == x # None /\ x # ""

\* ChangeRecords testing truthiness where the code tests `is None`.
ChangeRecordsTruthy(fname, old_pages_, new_pages_) ==
    LET old_content == Get(old_pages_, fname)
        new_content == Get(new_pages_, fname)
    IN  IF ~Truthy(old_content) /\ Truthy(new_content)
        THEN << [type |-> CHANGE_TYPE_ADDED, filename |-> fname,
                 content |-> Utf8Encode(new_content)] >>
        ELSE IF Truthy(old_content) /\ ~Truthy(new_content)
        THEN << [type |-> CHANGE_TYPE_DELETED, filename |-> fname] >>
        ELSE IF Truthy(old_content) /\ Truthy(new_content)
                /\ old_content # new_content
        THEN << [type |-> CHANGE_TYPE_UPDATED, filename |-> fname,
                 content |-> Utf8Encode(new_content)] >>
        ELSE << >>

\* ChangeRecords sending the old content of an updated file.
ChangeRecordsOldContent(fname, old_pages_, new_pages_) ==
    LET old_content == Get(old_pages_, fname)
        new_content == Get(new_pages_, fname)
    IN  IF old_content = None /\ new_content # None
        THEN << [type |-> CHANGE_TYPE_ADDED, filename |-> fname,
                 content |-> Utf8Encode(new_content)] >>
        ELSE IF old_content # None /\ new_content = None
        THEN << [type |-> CHANGE_TYPE_DELETED, filename |-> fname] >>
        ELSE IF old_content # None /\ new_content # None
                /\ old_content # new_content
        THEN << [type |-> CHANGE_TYPE_UPDATED, filename |-> fname,
                 content |-> Utf8Encode(old_content)] >>
        ELSE << >>

\* ChangeRecords without the comparison of the two contents.
ChangeRecordsNoCompare(fname, old_pages_, new_pages_) ==
    LET old_content == Get(old_pages_, fname)
        new_content == Get(new_pages_, fname)
    IN  IF old_content = None /\ new_content # None
        THEN << [type |-> CHANGE_TYPE_ADDED, filename |-> fname,
                 content |-> Utf8Encode(new_content)] >>
        ELSE IF old_content # None /\ new_content = None
        THEN << [type |-> CHANGE_TYPE_DELETED, filename |-> fname] >>
        ELSE IF old_content # None /\ new_content # None
        THEN << [type |-> CHANGE_TYPE_UPDATED, filename |-> fname,
                 content |-> Utf8Encode(new_content)] >>
        ELSE << >>

\* The body of the loop of detect_changes for one filename: the records it
\* appends (none or one).
ChangeRecords(fname, old_pages_, new_pages_) ==
    LET old_content == Get(old_pages_, fname)
        new_content == Get(new_pages_, fname)
    IN  IF old_content = None /\ new_content # None
        THEN << [type |-> CHANGE_TYPE_ADDED, filename |-> fname,
                 content |-> Utf8Encode(new_content)] >>
        ELSE IF old_content # None /\ new_content = None
        THEN << [type |-> CHANGE_TYPE_DELETED, filename |-> fname] >>
        ELSE IF old_content # None /\ new_content # None
                /\ old_content # new_content
        THEN << [type |-> CHANGE_TYPE_UPDATED, filename |-> fname,
                 content |-> Utf8Encode(new_content)] >>
        ELSE << >>

\* The keys of a dict in insertion order.
KeySeq(d) == [i \in DOMAIN d |-> d[i].k]

\* The filenames in the order a loop over the two dicts meets them, without
\* sorted().
IterationOrderUnsorted(old_pages_, new_pages_) ==
    KeySeq(old_pages_)
    \o SelectSeq(KeySeq(new_pages_), LAMBDA f : f \notin Keys(old_pages_))

\* The order in which detect_changes visits the filenames.
IterationOrder(old_pages_, new_pages_) ==
    sorted(Keys(old_pages_) \cup Keys(new_pages_))

RECURSIVE DetectLoop(_, _, _)
DetectLoop(order, old_pages_, new_pages_) ==
    IF order = << >> THEN << >>
    ELSE ChangeRecords(Head(order), old_pages_, new_pages_)
         \o DetectLoop(Tail(order), old_pages_, new_pages_)

detect_changes(old_pages_, new_pages_) ==
    DetectLoop(IterationOrder(old_pages_, new_pages_), old_pages_, new_pages_)

\* Every dict of at most MaxEntries entries over FileSet and Contents, in
\* every insertion order.
RECURSIVE DictsOfLen(_)
DictsOfLen(n) ==
    IF n = 0 THEN {<< >>}
    ELSE {Append(d, [k |-> f, v |-> c]) :
            d \in {x \in DictsOfLen(n - 1) : TRUE},
            f \in FileSet, c \in Contents}

Dicts ==
    {d \in UNION {DictsOfLen(n) : n \in 0..MaxEntries} :
        \A i, j \in DOMAIN d : i # j => d[i].k # d[j].k}

(***************************************************************************)
(* CONFIGURATION AND THE SITE                                              *)
(***************************************************************************)
\* The most worker threads (crawl's threads argument is 0..NumWorkers).
NumWorkers == 2

Workers == 1..NumWorkers

\* urlparse(start_url).netloc
base_netloc == "ex.com"

\* START_URL, "https://ex.com/": like the configured one it ends in "/".
START_URL == MkUrl(base_netloc, << "" >>)

\* The values of crawl's start_url argument: START_URL, a page of the same
\* site under "/admin", "https://ex.com/admin/x/", and
\* "https://ex.com/index.html/".
StartUrls ==
    {START_URL, MkUrl(base_netloc, << "admin", "x", "" >>),
     MkUrl(base_netloc, << "index.html", "" >>)}

\* MAX_RETRY
MAX_RETRY == 2

\* The first path segments of the model that begin with an entry of
\* BLOCKLIST_PATH_PREFIXES ("/wp-admin", "/admin", "/wp-login.php", "/cart",
\* "/wp"); ALLOWLIST_PATH_PREFIXES is empty.
BlockedFirstSegments == {"wp-admin", "admin", "wp-login.php", "cart", "wp"}

\* The first path segments that begin with an entry of
\* ALLOWLIST_PATH_PREFIXES: the list is empty.
AllowedFirstSegments == {}

\* The last path segments of the model that end in one of SKIP_EXTENSIONS.
SkipSegments == {"f.png"}

\* str.lower() on a path segment of the model
Lower(seg) == IF seg = "F.PNG" THEN "f.png" ELSE seg

\* path_allowed(link_parsed.path or "/")
path_allowed(p) ==
    LET path == IF p = << >> THEN << "" >> ELSE p
    IN  IF path[1] \in BlockedFirstSegments THEN FALSE
        ELSE IF AllowedFirstSegments = {} THEN TRUE
        ELSE path[1] \in AllowedFirstSegments

\* looks_like_html without the lower() of the path.
looks_like_htmlCaseSensitive(url) ==
    IF url.path = << >> THEN TRUE
    ELSE url.path[Len(url.path)] \notin SkipSegments

looks_like_html(url) ==
    IF url.path = << >> THEN TRUE
    ELSE Lower(url.path[Len(url.path)]) \notin SkipSegments

Root == MkUrl(base_netloc, << >>)

PageA == MkUrl(base_netloc, << "a" >>)

PageB == MkUrl(base_netloc, << "b" >>)

PageC == MkUrl(base_netloc, << "c" >>)

AdminPage == MkUrl(base_netloc, << "admin", "x" >>)

\* "mailto:x", a URL without authority
MailTo == [kind |-> "other", netloc |-> "", path |-> << >>, frag |-> FALSE]

\* What the site serves: the rendered page of a URL.  /a and /b serve the
\* same HTML (TwinPage), /c has their title, /admin/x links to itself.  links are the href
\* attributes of the page's a, area and link tags; title is the <title>
\* text.
NoPage == [status |-> "none", title |-> None, body |-> "", links |-> {}]

TwinPage ==
    [status |-> "html", title |-> "Twin", body |-> "twin",
     links |-> {MkRef(<< "c", "index.html" >>, FALSE)}]

SitePage(url) ==
    IF url = Root
    THEN [status |-> "html", title |-> "Home", body |-> "home",
          links |-> {MkRef(<< "a" >>, FALSE), MkRef(<< "b", "" >>, TRUE),
                     MkRef(<< "c" >>, FALSE),
                     MkUrl("other.org", << "a" >>),
                     MkUrl("sub.ex.com", << "a" >>), MailTo,
                     MkRef(<< "admin", "x" >>, FALSE)}]
    ELSE IF url = PageA \/ url = PageB THEN TwinPage
    ELSE IF url = PageC
    THEN [status |-> "html", title |-> "Twin", body |-> "see",
          links |-> {MkRef(<< "" >>, TRUE), MkRef(<< "f.png" >>, FALSE),
                     MkRef(<< "F.PNG" >>, FALSE)}]
    ELSE IF url = AdminPage
    THEN [status |-> "html", title |-> None, body |-> "other",
          links |-> {MkRef(<< "admin", "x", "" >>, FALSE)}]
    ELSE [status |-> "html", title |-> None, body |-> "other", links |-> {}]

\* What driver.page_source can be after driver.get(url): a response without
\* "<html", or the rendered page.
RenderOutcomes(url) ==
    {[SitePage(url) EXCEPT !.status = "text", !.links = {}], SitePage(url)}

\* How one pass of the loop of fetch_page_selenium can end: with the page
\* source; with a WebDriverException raised by webdriver.Chrome (the driver
\* cannot be created); with a WebDriverException, TimeoutException or
\* socket.timeout raised by driver.get; with another exception raised by
\* webdriver.Chrome; with another exception raised once the driver exists.
AttemptOutcomes ==
    {"page", "driver_failed", "get_failed", "driver_unexpected",
     "get_unexpected"}

(***************************************************************************)
(* HASHES AND FILENAMES                                                    *)
(*                                                                         *)
(* hashlib.md5 maps a string to a digest of fixed width, so distinct       *)
(* strings can share a digest.  The model numbers the strings it hashes    *)
(* and keeps the number modulo the size of the digest space.               *)
(***************************************************************************)
\* The size of the digest space of md5(md_content).
DigestSpace == 5

\* The size of the digest space of md5(url)[:8].
ShortDigestSpace == 7

SegmentCode(seg) ==
    CASE seg = "" -> 0
      [] seg = "a" -> 1
      [] seg = "b" -> 2
      [] seg = "c" -> 8
      [] seg = "f.png" -> 4
      [] seg = "index.html" -> 5
      [] OTHER -> 6

RECURSIVE PathCode(_)
PathCode(p) ==
    IF p = << >> THEN 0
    ELSE 1 + SegmentCode(p[Len(p)]) + 7 * PathCode(SubSeq(p, 1, Len(p) - 1))

UrlCode(url) == PathCode(url.path) + (IF url.netloc = base_netloc THEN 0 ELSE 3)

BodyCode(body) ==
    CASE body = "home" -> 0
      [] body = "twin" -> 2
      [] body = "see" -> 0
      [] OTHER -> 1

\* html_to_markdown(html_text, source_url): the "<!-- Source: url -->"
\* header followed by the markdown of the page
html_to_markdown(html_text, source_url) ==
    [source |-> source_url, md |-> html_text.body]

\* hashlib.md5(md_content.encode('utf-8')).hexdigest()
ContentHash(md_content) ==
    (UrlCode(md_content.source) + 3 * BodyCode(md_content.md)) % DigestSpace

\* hashlib.md5(url.encode('utf-8')).hexdigest()[:8]
UrlHash(url) == UrlCode(url) % ShortDigestSpace

\* path = parsed.path.strip('/')
RECURSIVE LStripSlash(_)
LStripSlash(p) ==
    IF Len(p) > 0 /\ p[1] = "" THEN LStripSlash(Tail(p)) ELSE p

\* url_to_filename(url, title): "<base_name>__<url_hash>.md", the base name
\* being the title when the page has one
url_to_filename(url, title) ==
    LET path == LStripSlash(RStripSlash(url.path))
        base_name_candidate ==
            IF path = << >> \/ path = << "index.php" >> \/ path = << "index.html" >>
            THEN << url.netloc >>
            ELSE path
    IN  [base_name |-> IF title # None THEN << title >> ELSE base_name_candidate,
         url_hash |-> UrlHash(url)]

\* extract_links(html_text, base_url)
extract_links(html_text, base_url) ==
    {normalize_url(h, base_url) : h \in {x \in html_text.links : x # NoUrl}}

\* d[k] = v for a dict kept as a function
Put(d, k, v) == [x \in DOMAIN d \cup {k} |-> IF x = k THEN v ELSE d[x]]

EmptyDict == << >>

(***************************************************************************)
(* STATE                                                                   *)
(***************************************************************************)
VARIABLES
    \* crawl (src/3.py)
    q,                          \* queue.Queue of URLs, first in first out
    unfinished,                 \* q.unfinished_tasks, what q.join() waits for
    visited,                    \* set of normalized URLs
    visited_lock,               \* the worker holding the lock, 0 when free
    content_hashes,             \* dict: content hash -> URL that saved it
    content_hashes_lock,
    crawled_files,              \* dict: filename -> markdown content
    crawled_urls_to_filenames,  \* dict: URL -> filename
    crawled_files_lock,
    disk,                       \* the .md files of output_dir: name -> content
    pc,                         \* where each worker thread is; "exited"
                                \* after its return, "raised" after an
                                \* exception that nothing caught,
                                \* "unstarted" for a thread that the run
                                \* does not create
    normalized_url,             \* each worker's current URL
    html_text,                  \* each worker's rendered page
    links,                      \* each worker's extracted links still to do
    main,                       \* where the main thread is in crawl
    fetch_count,                \* history: calls of fetch_page_selenium by URL
    first_decision,             \* history: hash -> first URL to decide on it
    duplicate_of,               \* history: URL found a duplicate -> the owner
    start_url,                  \* crawl's start_url argument
    render_log,                 \* each worker's passes of the loop of
                                \* fetch_page_selenium in its current call:
                                \* how each ended
    fetch_failed,               \* history: URLs whose fetch gave no HTML
    \* detect_changes
    old_pages, new_pages, changes, detect_pc,
    \* normalize_url
    href, base, base2, once, twice, norm_pc,
    \* main (src/3.py) and the directory OUTPUT_BASE_DIR over several runs
    base_dir,                   \* the snapshot directories, least recently
                                \* modified first
    clock,                      \* datetime.now(), in seconds
    history,                    \* history: the runs so far, oldest first
    main_pc,                    \* where main is
    site,                       \* the host of START_URL in this run
    new_folder, new_pages_data, \* what crawl returned
    old_folder,                 \* folders[1]
    sent,                       \* history: the requests.post calls of this
                                \* run: payload and outcome
    \* crawl_website and fetch_and_process (src/s.py); visited and
    \* fetch_count are those above
    max_workers,                \* crawl_website's argument
    frontier,                   \* queue.Queue of normalized URLs
    lock,                       \* the task holding the lock, 0 when free
    urls,                       \* the batch taken from the frontier
    task_pc,                    \* where the task of each URL of the batch is
    task_links,                 \* the hrefs each task has still to go through
    put_count,                  \* history: frontier.put calls per URL
    saved_as,                   \* history: URL -> the filename save_content
                                \* was given for it
    batch_pc,                   \* where crawl_website is
    \* compare_snapshots (src/Changes.py)
    old_dir, new_dir,           \* the two directories: filename -> text
    snap_todo,                  \* the items of new_files still to go through
    printed,                    \* history: what was printed, in order
    changes_files,              \* the files of output_dir: name -> content
    snap_pc,                    \* where compare_snapshots is
    \* generate_diffs (src/mains.py); old_pages and new_pages are those above
    all_files,                  \* sorted(all_files) still to go through
    diffs,                      \* dict: filename -> diff text
    diffs_pc,                   \* where generate_diffs is
    \* crawl and worker (src/new2.py)
    args,                       \* the command line: url and threads
    new2_visited,               \* the global set visited of src/new2.py
    calls,                      \* each thread's stack of calls of crawl
    thread_pc,                  \* where each thread is in worker
    got                         \* history: the URLs given to driver.get

crawl_vars ==
    << q, unfinished, visited, visited_lock, content_hashes,
       content_hashes_lock, crawled_files, crawled_urls_to_filenames,
       crawled_files_lock, disk, pc, normalized_url, html_text, links, main,
       fetch_count, first_decision, duplicate_of, start_url, render_log,
       fetch_failed >>

detect_vars == << old_pages, new_pages, changes, detect_pc >>

norm_vars == << href, base, base2, once, twice, norm_pc >>

main_vars ==
    << base_dir, clock, history, main_pc, site, new_folder, new_pages_data,
       old_folder, sent >>

batch_vars ==
    << max_workers, frontier, lock, urls, task_pc, task_links, put_count,
       saved_as, batch_pc >>

snap_vars ==
    << old_dir, new_dir, snap_todo, printed, changes_files, snap_pc >>

diffs_vars == << all_files, diffs, diffs_pc >>

new2_vars == << args, new2_visited, calls, thread_pc, got >>

tool_vars == << snap_vars, diffs_vars, new2_vars >>

\* What no step of compare_snapshots, generate_diffs or src/new2.py changes.
tool_frame ==
    << crawl_vars, detect_vars, norm_vars, main_vars, batch_vars >>

extra_vars == << main_vars, batch_vars, tool_vars >>

vars == << crawl_vars, detect_vars, norm_vars, extra_vars >>

\* dict.get(k) for a dict kept as a function; the filenames are records
Lookup(d, k, default) == IF k \in DOMAIN d THEN d[k] ELSE default

NoFile == [base_name |-> << >>, url_hash |-> 0 - 1]

Count(u) == Lookup(fetch_count, u, 0)

\* crawl's threads argument: the number of worker threads the run creates
threads == Cardinality({w \in Workers : pc[w] # "unstarted"})

CrawlInit ==
    /\ start_url \in StartUrls
    /\ q = << start_url >>
    /\ unfinished = 1
    /\ visited = {}
    /\ visited_lock = 0
    /\ content_hashes = EmptyDict
    /\ content_hashes_lock = 0
    /\ crawled_files = EmptyDict
    /\ crawled_urls_to_filenames = EmptyDict
    /\ crawled_files_lock = 0
    /\ disk = EmptyDict
    /\ \E n \in 0..NumWorkers :
          pc = [w \in Workers |-> IF w <= n THEN "get" ELSE "unstarted"]
    /\ normalized_url = [w \in Workers |-> NoUrl]
    /\ html_text = [w \in Workers |-> NoPage]
    /\ links = [w \in Workers |-> {}]
    /\ main = "join"
    /\ fetch_count = EmptyDict
    /\ first_decision = EmptyDict
    /\ duplicate_of = EmptyDict
    /\ render_log = [w \in Workers |-> << >>]
    /\ fetch_failed = {}

\* The crawl is not running.
CrawlIdle ==
    /\ q = << >>
    /\ unfinished = 0
    /\ visited = {}
    /\ visited_lock = 0
    /\ content_hashes = EmptyDict
    /\ content_hashes_lock = 0
    /\ crawled_files = EmptyDict
    /\ crawled_urls_to_filenames = EmptyDict
    /\ crawled_files_lock = 0
    /\ disk = EmptyDict
    /\ pc = [w \in Workers |-> "exited"]
    /\ normalized_url = [w \in Workers |-> NoUrl]
    /\ html_text = [w \in Workers |-> NoPage]
    /\ links = [w \in Workers |-> {}]
    /\ main = "idle"
    /\ fetch_count = EmptyDict
    /\ first_decision = EmptyDict
    /\ duplicate_of = EmptyDict
    /\ start_url = NoUrl
    /\ render_log = [w \in Workers |-> << >>]
    /\ fetch_failed = {}

DetectIdle ==
    /\ old_pages = << >>
    /\ new_pages = << >>
    /\ changes = << >>
    /\ detect_pc = "idle"

NormIdle ==
    /\ href = NoUrl
    /\ base = NoUrl
    /\ base2 = NoUrl
    /\ once = NoUrl
    /\ twice = NoUrl
    /\ norm_pc = "idle"

NoFolder == [host |-> << >>, ts |-> 0 - 1]

\* main is not running and OUTPUT_BASE_DIR is empty.
MainIdle ==
    /\ base_dir = << >>
    /\ clock = 0
    /\ history = << >>
    /\ main_pc = "idle"
    /\ site = << >>
    /\ new_folder = NoFolder
    /\ new_pages_data = << >>
    /\ old_folder = NoFolder
    /\ sent = << >>

\* crawl_website is not running.
BatchIdle ==
    /\ max_workers = 0
    /\ frontier = << >>
    /\ lock = 0
    /\ urls = << >>
    /\ task_pc = << >>
    /\ task_links = << >>
    /\ put_count = << >>
    /\ saved_as = << >>
    /\ batch_pc = "idle"

\* compare_snapshots is not running.
SnapIdle ==
    /\ old_dir = << >>
    /\ new_dir = << >>
    /\ snap_todo = {}
    /\ printed = << >>
    /\ changes_files = << >>
    /\ snap_pc = "idle"

\* generate_diffs is not running.
DiffsIdle ==
    /\ all_files = << >>
    /\ diffs = << >>
    /\ diffs_pc = "idle"

\* The script src/new2.py is not running.
New2Idle ==
    /\ args = << >>
    /\ new2_visited = {}
    /\ calls = << >>
    /\ thread_pc = << >>
    /\ got = {}

ToolIdle == SnapIdle /\ DiffsIdle /\ New2Idle

ExtraIdle == MainIdle /\ BatchIdle /\ ToolIdle

(***************************************************************************)
(* THE CRAWL: worker() and the main thread of crawl()                      *)
(*                                                                         *)
(* A step is one access to shared state together with the local            *)
(* computation that follows it.  A `with lock:` block is entered by the    *)
(* step that makes its first access and left by the step that makes its    *)
(* last.                                                                   *)
(***************************************************************************)
others == << detect_vars, norm_vars, extra_vars >>

md_content(w) == html_to_markdown(html_text[w], normalized_url[w])

content_hash(w) == ContentHash(md_content(w))

\* url = q.get_nowait(), normalize_url(url, start_url) and the domain check
Dequeue(w) ==
    /\ pc[w] = "get"
    /\ q # << >>
    /\ q' = Tail(q)
    /\ LET n == normalize_url(Head(q), start_url)
       IN  /\ normalized_url' = [normalized_url EXCEPT ![w] = n]
           /\ pc' = [pc EXCEPT ![w] = IF is_same_domain(n, base_netloc)
                                      THEN "visited_check" ELSE "task_done"]
    /\ UNCHANGED << unfinished, visited, visited_lock, content_hashes,
                    content_hashes_lock, crawled_files,
                    crawled_urls_to_filenames, crawled_files_lock, disk,
                    html_text, links, main, fetch_count, first_decision,
                    duplicate_of, start_url, render_log,
                    fetch_failed, others >>

\* WorkerExit without the test of the queue: the worker returns whatever
\* the queue holds.
WorkerExitAnyQueue(w) ==
    /\ pc[w] = "get"
    /\ pc' = [pc EXCEPT ![w] = "exited"]
    /\ UNCHANGED << q, unfinished, visited, visited_lock, content_hashes,
                    content_hashes_lock, crawled_files,
                    crawled_urls_to_filenames, crawled_files_lock, disk,
                    normalized_url, html_text, links, main, fetch_count,
                    first_decision, duplicate_of, start_url, render_log,
                    fetch_failed, others >>

\* except queue.Empty: return
WorkerExit(w) ==
    /\ pc[w] = "get"
    /\ q = << >>
    /\ pc' = [pc EXCEPT ![w] = "exited"]
    /\ UNCHANGED << q, unfinished, visited, visited_lock, content_hashes,
                    content_hashes_lock, crawled_files,
                    crawled_urls_to_filenames, crawled_files_lock, disk,
                    normalized_url, html_text, links, main, fetch_count,
                    first_decision, duplicate_of, start_url, render_log,
                    fetch_failed, others >>

\* CheckVisited without the lock: the test does not wait for the worker that
\* is between its own test and its add.
CheckVisitedNoLock(w) ==
    /\ pc[w] = "visited_check"
    /\ IF normalized_url[w] \in visited
       THEN /\ pc' = [pc EXCEPT ![w] = "task_done"]
            /\ UNCHANGED visited_lock
       ELSE /\ pc' = [pc EXCEPT ![w] = "visited_add"]
            /\ visited_lock' = w
    /\ UNCHANGED << q, unfinished, visited, content_hashes,
                    content_hashes_lock, crawled_files,
                    crawled_urls_to_filenames, crawled_files_lock, disk,
                    normalized_url, html_text, links, main, fetch_count,
                    first_decision, duplicate_of, start_url, render_log,
                    fetch_failed, others >>

\* with visited_lock: if normalized_url in visited: q.task_done(); continue
CheckVisited(w) ==
    /\ pc[w] = "visited_check"
    /\ visited_lock = 0
    /\ IF normalized_url[w] \in visited
       THEN /\ pc' = [pc EXCEPT ![w] = "task_done"]
            /\ UNCHANGED visited_lock
       ELSE /\ pc' = [pc EXCEPT ![w] = "visited_add"]
            /\ visited_lock' = w
    /\ UNCHANGED << q, unfinished, visited, content_hashes,
                    content_hashes_lock, crawled_files,
                    crawled_urls_to_filenames, crawled_files_lock, disk,
                    normalized_url, html_text, links, main, fetch_count,
                    first_decision, duplicate_of, start_url, render_log,
                    fetch_failed, others >>

\* visited.add(normalized_url), the end of the with block, looks_like_html
AddVisited(w) ==
    /\ pc[w] = "visited_add"
    /\ visited' = visited \cup {normalized_url[w]}
    /\ visited_lock' = 0
    /\ pc' = [pc EXCEPT ![w] = IF looks_like_html(normalized_url[w])
                               THEN "fetch" ELSE "task_done"]
    /\ UNCHANGED << q, unfinished, content_hashes, content_hashes_lock,
                    crawled_files, crawled_urls_to_filenames,
                    crawled_files_lock, disk, normalized_url, html_text,
                    links, main, fetch_count, first_decision, duplicate_of,
                    start_url, render_log, fetch_failed, others >>

\* for attempt in range(1, MAX_RETRY + 1): the number of the pass the worker
\* is about to make
attempt(w) == Len(render_log[w]) + 1

\* The local variable driver of fetch_page_selenium is bound: an earlier pass
\* of this call got past webdriver.Chrome.
DriverBound(w) ==
    \E i \in DOMAIN render_log[w] : render_log[w][i] = "get_failed"

\* One pass of the loop of fetch_page_selenium(normalized_url):
\*   driver = webdriver.Chrome(...); driver.get(url); html_text =
\*   driver.page_source; driver.quit(); return html_text
\* A WebDriverException, TimeoutException or socket.timeout leads to the next
\* pass, or to `return None` after pass MAX_RETRY.  Any other exception leads
\* to driver.quit() and `return None`; when no pass of this call has bound
\* driver, driver.quit() raises UnboundLocalError, which nothing catches.
Fetch(w) ==
    /\ pc[w] = "fetch"
    /\ fetch_count' = IF render_log[w] = << >>
                      THEN Put(fetch_count, normalized_url[w],
                               Count(normalized_url[w]) + 1)
                      ELSE fetch_count
    /\ \E o \in AttemptOutcomes :
          /\ render_log' = [render_log EXCEPT ![w] = Append(@, o)]
          /\ CASE o = "page" ->
                    /\ \E r \in RenderOutcomes(normalized_url[w]) :
                          html_text' = [html_text EXCEPT ![w] = r]
                    /\ pc' = [pc EXCEPT ![w] = "fetched"]
               [] o \in {"driver_failed", "get_failed"} ->
                    IF attempt(w) < MAX_RETRY
                    THEN UNCHANGED << html_text, pc >>
                    ELSE /\ html_text' = [html_text EXCEPT ![w] = NoPage]
                         /\ pc' = [pc EXCEPT ![w] = "fetched"]
               [] o = "get_unexpected"
                  \/ (o = "driver_unexpected" /\ DriverBound(w)) ->
                    /\ html_text' = [html_text EXCEPT ![w] = NoPage]
                    /\ pc' = [pc EXCEPT ![w] = "fetched"]
               [] OTHER ->
                    /\ pc' = [pc EXCEPT ![w] = "raised"]
                    /\ UNCHANGED html_text
    /\ UNCHANGED << q, unfinished, visited, visited_lock, content_hashes,
                    content_hashes_lock, crawled_files,
                    crawled_urls_to_filenames, crawled_files_lock, disk,
                    normalized_url, links, main, first_decision, duplicate_of,
                    start_url, fetch_failed, others >>

\* Fetched that lets the crawl go on with whatever the call returned.
FetchedNoTest(w) ==
    /\ pc[w] = "fetched"
    /\ render_log' = [render_log EXCEPT ![w] = << >>]
    /\ pc' = [pc EXCEPT ![w] = "hash_check"]
    /\ fetch_failed' = IF html_text[w].status = "html" THEN fetch_failed
                       ELSE fetch_failed \cup {normalized_url[w]}
    /\ UNCHANGED << q, unfinished, visited, visited_lock, content_hashes,
                    content_hashes_lock, crawled_files,
                    crawled_urls_to_filenames, crawled_files_lock, disk,
                    normalized_url, html_text, links, main, fetch_count,
                    first_decision, duplicate_of, start_url, others >>

\* fetch_page_selenium has returned:
\*   if not html_text or "<html" not in html_text.lower():
\*       q.task_done(); continue
Fetched(w) ==
    /\ pc[w] = "fetched"
    /\ render_log' = [render_log EXCEPT ![w] = << >>]
    /\ IF html_text[w].status = "html"
       THEN /\ pc' = [pc EXCEPT ![w] = "hash_check"]
            /\ UNCHANGED fetch_failed
       ELSE /\ pc' = [pc EXCEPT ![w] = "task_done"]
            /\ fetch_failed' = fetch_failed \cup {normalized_url[w]}
    /\ UNCHANGED << q, unfinished, visited, visited_lock, content_hashes,
                    content_hashes_lock, crawled_files,
                    crawled_urls_to_filenames, crawled_files_lock, disk,
                    normalized_url, html_text, links, main, fetch_count,
                    first_decision, duplicate_of, start_url, others >>

\* CheckContentHash without the lock: the test does not wait for the worker
\* that is between its own test and its insert.
CheckContentHashNoLock(w) ==
    /\ pc[w] = "hash_check"
    /\ content_hashes_lock' = w
    /\ pc' = [pc EXCEPT ![w] = IF content_hash(w) \in DOMAIN content_hashes
                               THEN "duplicate" ELSE "hash_insert"]
    /\ first_decision' =
          IF content_hash(w) \in DOMAIN first_decision THEN first_decision
          ELSE Put(first_decision, content_hash(w), normalized_url[w])
    /\ duplicate_of' =
          IF content_hash(w) \in DOMAIN content_hashes
          THEN Put(duplicate_of, normalized_url[w],
                   content_hashes[content_hash(w)])
          ELSE duplicate_of
    /\ UNCHANGED << q, unfinished, visited, visited_lock, content_hashes,
                    crawled_files, crawled_urls_to_filenames,
                    crawled_files_lock, disk, normalized_url, html_text,
                    links, main, fetch_count, start_url, render_log,
                    fetch_failed, others >>

\* with content_hashes_lock: if content_hash in content_hashes
CheckContentHash(w) ==
    /\ pc[w] = "hash_check"
    /\ content_hashes_lock = 0
    /\ content_hashes_lock' = w
    /\ pc' = [pc EXCEPT ![w] = IF content_hash(w) \in DOMAIN content_hashes
                               THEN "duplicate" ELSE "hash_insert"]
    /\ first_decision' =
          IF content_hash(w) \in DOMAIN first_decision THEN first_decision
          ELSE Put(first_decision, content_hash(w), normalized_url[w])
    /\ UNCHANGED << q, unfinished, visited, visited_lock, content_hashes,
                    crawled_files, crawled_urls_to_filenames,
                    crawled_files_lock, disk, normalized_url, html_text,
                    links, main, fetch_count, start_url, render_log,
                    fetch_failed, others >>
    /\ duplicate_of' =
          IF content_hash(w) \in DOMAIN content_hashes
          THEN Put(duplicate_of, normalized_url[w],
                   content_hashes[content_hash(w)])
          ELSE duplicate_of

\* else: content_hashes[content_hash] = normalized_url, the end of the block
InsertContentHash(w) ==
    /\ pc[w] = "hash_insert"
    /\ content_hashes' = Put(content_hashes, content_hash(w), normalized_url[w])
    /\ content_hashes_lock' = 0
    /\ pc' = [pc EXCEPT ![w] = "save"]
    /\ UNCHANGED << q, unfinished, visited, visited_lock, crawled_files,
                    crawled_urls_to_filenames, crawled_files_lock, disk,
                    normalized_url, html_text, links, main, fetch_count,
                    first_decision, duplicate_of, start_url, render_log,
                    fetch_failed, others >>

\* RecordAlias mapping the duplicate URL to a filename of its own, which
\* nothing saved.
RecordAliasOwnName(w) ==
    /\ pc[w] = "duplicate"
    /\ crawled_files_lock = 0
    /\ crawled_urls_to_filenames' =
          Put(crawled_urls_to_filenames, normalized_url[w],
              url_to_filename(normalized_url[w], html_text[w].title))
    /\ content_hashes_lock' = 0
    /\ pc' = [pc EXCEPT ![w] = "task_done"]
    /\ UNCHANGED << q, unfinished, visited, visited_lock, content_hashes,
                    crawled_files, crawled_files_lock, disk, normalized_url,
                    html_text, links, main, fetch_count, first_decision,
                    duplicate_of, start_url, render_log,
                    fetch_failed, others >>

\* The duplicate branch: with crawled_files_lock, the alias of the URL to the
\* owner's filename if the owner has one; then both blocks end.
RecordAlias(w) ==
    /\ pc[w] = "duplicate"
    /\ crawled_files_lock = 0
    /\ LET original_url_for_content == content_hashes[content_hash(w)]
           existing_filename ==
               Lookup(crawled_urls_to_filenames, original_url_for_content, NoFile)
       IN  crawled_urls_to_filenames' =
               IF existing_filename # NoFile
               THEN Put(crawled_urls_to_filenames, normalized_url[w],
                        existing_filename)
               ELSE crawled_urls_to_filenames
    /\ content_hashes_lock' = 0
    /\ pc' = [pc EXCEPT ![w] = "task_done"]
    /\ UNCHANGED << q, unfinished, visited, visited_lock, content_hashes,
                    crawled_files, crawled_files_lock, disk, normalized_url,
                    html_text, links, main, fetch_count, first_decision,
                    duplicate_of, start_url, render_log,
                    fetch_failed, others >>

filename(w) == url_to_filename(normalized_url[w], html_text[w].title)

\* save_markdown raises: open(filepath, "w") or f.write(md) fails with an
\* OSError, which nothing in worker catches, and the thread ends.
SaveMarkdownRaises(w) ==
    /\ pc[w] = "save"
    /\ pc' = [pc EXCEPT ![w] = "raised"]
    /\ UNCHANGED << q, unfinished, visited, visited_lock, content_hashes,
                    content_hashes_lock, crawled_files,
                    crawled_urls_to_filenames, crawled_files_lock, disk,
                    normalized_url, html_text, links, main, fetch_count,
                    first_decision, duplicate_of, start_url, render_log,
                    fetch_failed, others >>

\* filename = save_markdown(output_dir, normalized_url, html_text)
SaveMarkdown(w) ==
    /\ pc[w] = "save"
    /\ disk' = Put(disk, filename(w),
                   html_to_markdown(html_text[w], normalized_url[w]))
    /\ pc' = [pc EXCEPT ![w] = "record"]
    /\ UNCHANGED << q, unfinished, visited, visited_lock, content_hashes,
                    content_hashes_lock, crawled_files,
                    crawled_urls_to_filenames, crawled_files_lock,
                    normalized_url, html_text, links, main, fetch_count,
                    first_decision, duplicate_of, start_url, render_log,
                    fetch_failed, others >>

\* The links of the page that pass the domain and path checks of the loop.
LinksToFollow(w) ==
    {l \in extract_links(html_text[w], normalized_url[w]) :
        is_same_domain(l, base_netloc) /\ path_allowed(l.path)}

\* RecordFile storing the markdown of the page without its Source header.
RecordFileWithoutHeader(w) ==
    /\ pc[w] = "record"
    /\ crawled_files_lock = 0
    /\ crawled_files' = Put(crawled_files, filename(w),
                            [md_content(w) EXCEPT !.source = NoUrl])
    /\ crawled_urls_to_filenames' =
          Put(crawled_urls_to_filenames, normalized_url[w], filename(w))
    /\ links' = [links EXCEPT ![w] = LinksToFollow(w)]
    /\ pc' = [pc EXCEPT ![w] = IF LinksToFollow(w) = {} THEN "task_done"
                               ELSE "links"]
    /\ UNCHANGED << q, unfinished, visited, visited_lock, content_hashes,
                    content_hashes_lock, crawled_files_lock, disk,
                    normalized_url, html_text, main, fetch_count,
                    first_decision, duplicate_of, start_url, render_log,
                    fetch_failed, others >>

\* RecordFile taking content_hashes_lock inside crawled_files_lock: a first
\* step takes crawled_files_lock, a second, once content_hashes_lock is
\* free, makes the two stores and leaves both blocks.
RecordFileInsideOut(w) ==
    /\ pc[w] = "record"
    /\ IF crawled_files_lock # w
       THEN /\ crawled_files_lock = 0
            /\ crawled_files_lock' = w
            /\ UNCHANGED << crawled_files, crawled_urls_to_filenames, links,
                            pc >>
       ELSE /\ content_hashes_lock = 0
            /\ crawled_files_lock' = 0
            /\ crawled_files' = Put(crawled_files, filename(w), md_content(w))
            /\ crawled_urls_to_filenames' =
                  Put(crawled_urls_to_filenames, normalized_url[w],
                      filename(w))
            /\ links' = [links EXCEPT ![w] = LinksToFollow(w)]
            /\ pc' = [pc EXCEPT ![w] = IF LinksToFollow(w) = {}
                                       THEN "task_done" ELSE "links"]
    /\ UNCHANGED << q, unfinished, visited, visited_lock, content_hashes,
                    content_hashes_lock, disk, normalized_url, html_text,
                    main, fetch_count, first_decision, duplicate_of,
                    start_url, render_log, fetch_failed, others >>

\* with crawled_files_lock: the two stores; then extract_links
RecordFile(w) ==
    /\ pc[w] = "record"
    /\ crawled_files_lock = 0
    /\ crawled_files' = Put(crawled_files, filename(w), md_content(w))
    /\ crawled_urls_to_filenames' =
          Put(crawled_urls_to_filenames, normalized_url[w], filename(w))
    /\ links' = [links EXCEPT ![w] = LinksToFollow(w)]
    /\ pc' = [pc EXCEPT ![w] = IF LinksToFollow(w) = {} THEN "task_done"
                               ELSE "links"]
    /\ UNCHANGED << q, unfinished, visited, visited_lock, content_hashes,
                    content_hashes_lock, crawled_files_lock, disk,
                    normalized_url, html_text, main, fetch_count,
                    first_decision, duplicate_of, start_url, render_log,
                    fetch_failed, others >>

\* One round of the link loop, for a link the set iteration yields next:
\* with visited_lock: if normalized_link not in visited: q.put(normalized_link)
EnqueueLink(w) ==
    /\ pc[w] = "links"
    /\ visited_lock = 0
    /\ \E link \in links[w] :
          LET normalized_link == normalize_url(link, normalized_url[w])
          IN  /\ IF normalized_link \notin visited
                 THEN /\ q' = Append(q, normalized_link)
                      /\ unfinished' = unfinished + 1
                 ELSE UNCHANGED << q, unfinished >>
              /\ links' = [links EXCEPT ![w] = links[w] \ {link}]
              /\ pc' = [pc EXCEPT ![w] = IF links[w] = {link} THEN "task_done"
                                         ELSE "links"]
    /\ UNCHANGED << visited, visited_lock, content_hashes,
                    content_hashes_lock, crawled_files,
                    crawled_urls_to_filenames, crawled_files_lock, disk,
                    normalized_url, html_text, main, fetch_count,
                    first_decision, duplicate_of, start_url, render_log,
                    fetch_failed, others >>

\* q.task_done(), at the end of the loop body or before a continue.  The
\* next pass of the while loop assigns normalized_url and html_text before
\* it reads them: the model clears them here.
TaskDone(w) ==
    /\ pc[w] = "task_done"
    /\ unfinished' = unfinished - 1
    /\ pc' = [pc EXCEPT ![w] = "get"]
    /\ normalized_url' = [normalized_url EXCEPT ![w] = NoUrl]
    /\ html_text' = [html_text EXCEPT ![w] = NoPage]
    /\ UNCHANGED << q, visited, visited_lock, content_hashes,
                    content_hashes_lock, crawled_files,
                    crawled_urls_to_filenames, crawled_files_lock, disk,
                    links, main, fetch_count,
                    first_decision, duplicate_of, start_url, render_log,
                    fetch_failed, others >>

\* q.join() returns
Join ==
    /\ main = "join"
    /\ unfinished = 0
    /\ main' = "cleanup"
    /\ UNCHANGED << q, unfinished, visited, visited_lock, content_hashes,
                    content_hashes_lock, crawled_files,
                    crawled_urls_to_filenames, crawled_files_lock, disk, pc,
                    normalized_url, html_text, links, fetch_count,
                    first_decision, duplicate_of, start_url, render_log,
                    fetch_failed, others >>

\* The removal of every .md file whose name is no key of crawled_files, and
\* return output_dir, crawled_files
CleanupAndReturn ==
    /\ main = "cleanup"
    /\ disk' = [f \in DOMAIN disk \cap DOMAIN crawled_files |-> disk[f]]
    /\ main' = "returned"
    /\ UNCHANGED << q, unfinished, visited, visited_lock, content_hashes,
                    content_hashes_lock, crawled_files,
                    crawled_urls_to_filenames, crawled_files_lock, pc,
                    normalized_url, html_text, links, fetch_count,
                    first_decision, duplicate_of, start_url, render_log,
                    fetch_failed, others >>

Init == CrawlInit /\ DetectIdle /\ NormIdle /\ ExtraIdle

Next ==
    \/ \E w \in Workers : Dequeue(w)
    \/ \E w \in Workers : WorkerExit(w)
    \/ \E w \in Workers : CheckVisited(w)
    \/ \E w \in Workers : AddVisited(w)
    \/ \E w \in Workers : Fetch(w)
    \/ \E w \in Workers : Fetched(w)
    \/ \E w \in Workers : CheckContentHash(w)
    \/ \E w \in Workers : InsertContentHash(w)
    \/ \E w \in Workers : RecordAlias(w)
    \/ \E w \in Workers : SaveMarkdown(w)
    \/ \E w \in Workers : SaveMarkdownRaises(w)
    \/ \E w \in Workers : RecordFile(w)
    \/ \E w \in Workers : EnqueueLink(w)
    \/ \E w \in Workers : TaskDone(w)
    \/ Join
    \/ CleanupAndReturn

Spec == Init /\ [][Next]_vars

(***************************************************************************)
(* detect_changes ON EVERY PAIR OF BOUNDED DICTS                           *)
(***************************************************************************)
DetectInit ==
    /\ CrawlIdle
    /\ NormIdle
    /\ ExtraIdle
    /\ old_pages \in Dicts
    /\ new_pages \in Dicts
    /\ changes = << >>
    /\ detect_pc = "call"

\* changes = detect_changes(old_pages, new_pages)
Detect ==
    /\ detect_pc = "call"
    /\ changes' = detect_changes(old_pages, new_pages)
    /\ detect_pc' = "returned"
    /\ UNCHANGED << old_pages, new_pages, crawl_vars, norm_vars, extra_vars >>

SpecDetect == DetectInit /\ [][Detect]_vars

(***************************************************************************)
(* normalize_url ON EVERY BOUNDED HREF, AND AGAIN ON ITS RESULT            *)
(***************************************************************************)
\* The most segments of a modelled path.
MaxPathLen == 3

NormSegments == {"", "a", "index.html"}

RECURSIVE PathsOfLen(_)
PathsOfLen(n) ==
    IF n = 0 THEN {<< >>}
    ELSE {Append(p, seg) : p \in PathsOfLen(n - 1), seg \in NormSegments}

Paths == UNION {PathsOfLen(n) : n \in 0..MaxPathLen}

\* The empty string, absolute URLs of two hosts and "/..." references, with
\* and without a fragment.
Hrefs ==
    {NoUrl}
    \cup {[kind |-> "abs", netloc |-> h, path |-> p, frag |-> f] :
            h \in {base_netloc, "other.org"}, p \in Paths, f \in BOOLEAN}
    \cup {MkRef(p, f) : p \in Paths, f \in BOOLEAN}

\* Bases: the start URL and pages of two hosts.
Bases ==
    {START_URL, Root, PageA, MkUrl("other.org", << "a", "" >>)}

NormInit ==
    /\ CrawlIdle
    /\ DetectIdle
    /\ ExtraIdle
    /\ href \in Hrefs
    /\ base \in Bases
    /\ base2 \in Bases
    /\ once = NoUrl
    /\ twice = NoUrl
    /\ norm_pc = "first"

\* once = normalize_url(href, base)
NormalizeOnce ==
    /\ norm_pc = "first"
    /\ once' = normalize_url(href, base)
    /\ norm_pc' = "second"
    /\ UNCHANGED << href, base, base2, twice, crawl_vars, detect_vars,
                    extra_vars >>

\* twice = normalize_url(once, base2)
NormalizeTwice ==
    /\ norm_pc = "second"
    /\ twice' = normalize_url(once, base2)
    /\ norm_pc' = "done"
    /\ UNCHANGED << href, base, base2, once, crawl_vars, detect_vars,
                    extra_vars >>

NormNext == NormalizeOnce \/ NormalizeTwice

SpecNorm == NormInit /\ [][NormNext]_vars

(***************************************************************************)
(* main(): RUNS OF THE PROGRAM OVER ONE OUTPUT_BASE_DIR                    *)
(*                                                                         *)
(* A run is crawl (which creates the snapshot directory and leaves in it   *)
(* the files of the mapping it returns), list_crawl_folders, the           *)
(* comparison with folders[1], one send_webhook_notification per record    *)
(* and the change summary.  START_URL is a setting the operator edits      *)
(* between runs.  A host is the text of netloc.replace(':', '_') cut in    *)
(* pieces: "ex.com" is the beginning of "ex.com.au".                       *)
(***************************************************************************)
\* The most runs of main over the same OUTPUT_BASE_DIR.
MaxRuns == 3

\* The hosts START_URL is set to.
SiteHosts == {<< "ex.com" >>, << "ex.com", ".au" >>}

\* The mappings crawl returns, as the site changes from run to run.
CrawlResults ==
    {<< >>,
     << [k |-> "a.md", v |-> "X"] >>,
     << [k |-> "b.md", v |-> "X"], [k |-> "a.md", v |-> "Y"] >>,
     << [k |-> "b.md", v |-> "Y"] >>}

\* How requests.post and raise_for_status can end: a 2xx response, a
\* Timeout, another RequestException (an HTTP error status included),
\* another exception.
PostOutcomes == {"sent", "timeout", "request_error", "unexpected"}

\* make_site_folder_name(start_url): "<host>_<%Y%m%d_%H%M%S>"
make_site_folder_name(host, now) == [host |-> host, ts |-> now]

\* The text of a directory name up to the timestamp.
NameText(p) == p.host \o << "_" >>

\* p.startswith(host_filter)
StartsWith(text, prefix) ==
    Len(prefix) <= Len(text) /\ SubSeq(text, 1, Len(prefix)) = prefix

RECURSIVE Reverse(_)
Reverse(seq) ==
    IF seq = << >> THEN << >> ELSE Append(Reverse(Tail(seq)), Head(seq))

\* list_crawl_folders(base_dir): the directories whose name starts with the
\* host of START_URL, most recently modified first
list_crawl_folders(dirs, host_filter) ==
    Reverse([i \in DOMAIN SelectSeq(dirs,
                 LAMBDA d : StartsWith(NameText(d.name), host_filter))
             |-> SelectSeq(dirs,
                 LAMBDA d : StartsWith(NameText(d.name), host_filter))[i].name])

\* The position of a directory in base_dir, 0 when there is none.
DirIndex(dirs, name) ==
    IF \E i \in DOMAIN dirs : dirs[i].name = name
    THEN CHOOSE i \in DOMAIN dirs : dirs[i].name = name
    ELSE 0

\* base_dir without the directory at position i
RemoveAt(dirs, i) ==
    [j \in 1..(Len(dirs) - 1) |-> IF j < i THEN dirs[j] ELSE dirs[j + 1]]

\* The .md files of a mapping, as the files of a directory.
FilesOf(d) == [f \in Keys(d) |-> Get(d, f)]

\* The dicts read_all_pages_from_folder can build from the .md files of a
\* directory: os.listdir gives them in any order.
read_all_pages_from_folder(dirs, folder) ==
    IF DirIndex(dirs, folder) = 0 THEN {<< >>}
    ELSE LET files == dirs[DirIndex(dirs, folder)].files
             entries == {[k |-> f, v |-> files[f]] : f \in DOMAIN files}
         IN  {d \in [1..Cardinality(DOMAIN files) -> entries] :
                 \A i, j \in DOMAIN d : i # j => d[i].k # d[j].k}

\* base64.b64encode(b).decode('utf-8'): a str
B64Encode(b) == [base64 |-> b.bytes]

\* The payload after send_webhook_notification has encoded its content.
EncodedPayload(payload) ==
    IF "content" \in DOMAIN payload /\ DOMAIN payload.content = {"bytes"}
    THEN [x \in DOMAIN payload \cup {"content_encoding"} |->
            IF x = "content" THEN B64Encode(payload.content)
            ELSE IF x = "content_encoding" THEN "base64"
            ELSE payload[x]]
    ELSE payload

\* {"site_url": START_URL, "crawl_id": basename(new_folder), **change}
FullPayload(change) ==
    [x \in DOMAIN change \cup {"site_url", "crawl_id"} |->
        IF x = "site_url" THEN site
        ELSE IF x = "crawl_id" THEN new_folder
        ELSE change[x]]

MainInit == CrawlIdle /\ DetectIdle /\ NormIdle /\ ExtraIdle

\* A second passes between two runs.
ClockTick ==
    /\ main_pc = "idle"
    /\ clock < Len(history)
    /\ clock' = clock + 1
    /\ UNCHANGED << base_dir, history, main_pc, site, new_folder,
                    new_pages_data, old_folder, sent, crawl_vars,
                    detect_vars, norm_vars, batch_vars,
                    tool_vars >>

\* new_folder, new_pages_data = crawl(START_URL, OUTPUT_BASE_DIR): the
\* directory is created unless it exists, the files of the mapping are
\* written and the other .md files of the directory are removed.
RunCrawl ==
    /\ main_pc = "idle"
    /\ Len(history) < MaxRuns
    /\ \E host \in SiteHosts, result \in CrawlResults :
          LET name == make_site_folder_name(host, clock)
              i == DirIndex(base_dir, name)
              created == [name |-> name, files |-> FilesOf(result),
                          summary |-> FALSE]
          IN  /\ site' = host
              /\ new_folder' = name
              /\ new_pages_data' = result
              /\ base_dir' =
                    IF i = 0 THEN Append(base_dir, created)
                    ELSE IF result = << >> /\ DOMAIN base_dir[i].files = {}
                    THEN base_dir
                    ELSE Append(RemoveAt(base_dir, i),
                                [base_dir[i] EXCEPT !.files = FilesOf(result)])
              /\ history' = Append(history, [host |-> host, name |-> name,
                                            files |-> FilesOf(result)])
    /\ main_pc' = "crawled"
    /\ UNCHANGED << clock, old_folder, sent, crawl_vars, detect_vars,
                    norm_vars, batch_vars,
                    tool_vars >>

\* folders = list_crawl_folders(OUTPUT_BASE_DIR) and what follows up to the
\* first notification: the first-crawl branch, or old_folder, old_pages and
\* changes = detect_changes(old_pages, new_pages_data).
Compare ==
    /\ main_pc = "crawled"
    /\ LET folders == list_crawl_folders(base_dir, site)
       IN  IF Len(folders) < 2
           THEN /\ main_pc' = IF new_pages_data = << >> THEN "done"
                              ELSE "first_crawl"
                /\ UNCHANGED << old_folder, old_pages, changes >>
           ELSE /\ old_folder' = folders[2]
                /\ \E pages \in read_all_pages_from_folder(base_dir, folders[2]) :
                      /\ old_pages' = pages
                      /\ changes' = detect_changes(pages, new_pages_data)
                      /\ main_pc' =
                            IF detect_changes(pages, new_pages_data) = << >>
                            THEN "done" ELSE "notify"
    /\ UNCHANGED << base_dir, clock, history, site, new_folder,
                    new_pages_data, sent, crawl_vars, new_pages, detect_pc,
                    norm_vars, batch_vars,
                    tool_vars >>

\* One round of the loop of the first-crawl branch: the payload of the next
\* item of new_pages_data and send_webhook_notification(change_payload).
SendFirstCrawl ==
    /\ main_pc = "first_crawl"
    /\ LET n == Len(sent) + 1
           change_payload ==
               [site_url |-> site, crawl_id |-> new_folder,
                type |-> CHANGE_TYPE_ADDED, filename |-> new_pages_data[n].k,
                content |-> Utf8Encode(new_pages_data[n].v)]
       IN  /\ \E outcome \in PostOutcomes :
                 sent' = Append(sent, [json |-> EncodedPayload(change_payload),
                                       outcome |-> outcome])
           /\ main_pc' = IF n = Len(new_pages_data) THEN "done"
                         ELSE "first_crawl"
    /\ UNCHANGED << base_dir, clock, history, site, new_folder,
                    new_pages_data, old_folder, crawl_vars, detect_vars,
                    norm_vars, batch_vars,
                    tool_vars >>

\* SendChange handing the record itself to send_webhook_notification.
SendChangeSameDict ==
    /\ main_pc = "notify"
    /\ LET n == Len(sent) + 1
       IN  /\ \E outcome \in PostOutcomes :
                 sent' = Append(sent,
                                [json |-> EncodedPayload(FullPayload(changes[n])),
                                 outcome |-> outcome])
           /\ changes' = [changes EXCEPT ![n] = EncodedPayload(changes[n])]
           /\ main_pc' = IF n = Len(changes) THEN "summary" ELSE "notify"
    /\ UNCHANGED << base_dir, clock, history, site, new_folder,
                    new_pages_data, old_folder, crawl_vars, old_pages,
                    new_pages, detect_pc, norm_vars, batch_vars,
                    tool_vars >>

\* SendChange leaving the loop when a delivery fails.
SendChangeStopOnFailure ==
    /\ main_pc = "notify"
    /\ LET n == Len(sent) + 1
       IN  \E outcome \in PostOutcomes :
              /\ sent' = Append(sent,
                                [json |-> EncodedPayload(FullPayload(changes[n])),
                                 outcome |-> outcome])
              /\ main_pc' = IF outcome # "sent" THEN "done"
                            ELSE IF n = Len(changes) THEN "summary"
                            ELSE "notify"
    /\ UNCHANGED << base_dir, clock, history, site, new_folder,
                    new_pages_data, old_folder, crawl_vars, detect_vars,
                    norm_vars, batch_vars,
                    tool_vars >>

\* One round of `for change in changes`: full_payload, a new dict, and
\* send_webhook_notification(full_payload), which encodes the content in
\* full_payload, posts it and catches what the post raises.
SendChange ==
    /\ main_pc = "notify"
    /\ LET n == Len(sent) + 1
       IN  /\ \E outcome \in PostOutcomes :
                 sent' = Append(sent,
                                [json |-> EncodedPayload(FullPayload(changes[n])),
                                 outcome |-> outcome])
           /\ main_pc' = IF n = Len(changes) THEN "summary" ELSE "notify"
    /\ UNCHANGED << base_dir, clock, history, site, new_folder,
                    new_pages_data, old_folder, crawl_vars, detect_vars,
                    norm_vars, batch_vars,
                    tool_vars >>

\* change_summary.txt is written into new_folder.
WriteSummary ==
    /\ main_pc = "summary"
    /\ LET i == DirIndex(base_dir, new_folder)
       IN  base_dir' =
              IF base_dir[i].summary THEN base_dir
              ELSE Append(RemoveAt(base_dir, i),
                          [base_dir[i] EXCEPT !.summary = TRUE])
    /\ main_pc' = "done"
    /\ UNCHANGED << clock, history, site, new_folder, new_pages_data,
                    old_folder, sent, crawl_vars, detect_vars, norm_vars,
                    batch_vars,
                    tool_vars >>

\* main returns.
MainReturn ==
    /\ main_pc = "done"
    /\ main_pc' = "idle"
    /\ site' = << >>
    /\ new_folder' = NoFolder
    /\ new_pages_data' = << >>
    /\ old_folder' = NoFolder
    /\ old_pages' = << >>
    /\ changes' = << >>
    /\ sent' = << >>
    /\ UNCHANGED << base_dir, clock, history, crawl_vars, new_pages,
                    detect_pc, norm_vars, batch_vars,
                    tool_vars >>

MainNext ==
    \/ ClockTick
    \/ RunCrawl
    \/ Compare
    \/ SendFirstCrawl
    \/ SendChange
    \/ WriteSummary
    \/ MainReturn

SpecMain == MainInit /\ [][MainNext]_vars

(***************************************************************************)
(* THE CRAWL OF THE EMAIL VARIANT (src/mains.py)                           *)
(*                                                                         *)
(* crawl and worker of src/mains.py keep the names of src/3.py (q,         *)
(* visited, visited_lock, ...), so the state is kept in the same           *)
(* variables; normalized_url[w] holds the worker's local `url`, which this *)
(* worker takes from the queue as it is.  There are no content hashes and  *)
(* no returned mapping.  The test and the add of visited are one `with`    *)
(* block, taken as one step.                                               *)
(***************************************************************************)
\* normalize_url of src/mains.py: no default-document rule
mains_normalize_url(href_, base_) ==
    IF href_ = NoUrl THEN NoUrl
    ELSE LET abs_url == urljoin(base_, StripFragment(href_))
         IN  IF EndsWithSlash(abs_url)
             THEN [abs_url EXCEPT !.path = RStripSlash(abs_url.path)]
             ELSE abs_url

\* parsed.netloc == base_netloc or parsed.netloc == ""
mains_is_same_domain(url, netloc) == url.netloc = netloc \/ url.netloc = ""

\* BLOCKLIST_PATH_PREFIXES of src/mains.py, as first segments
mains_BlockedFirstSegments == {"admin", "wp-login.php", "cart"}

\* path_allowed(link_parsed.path or "/") with the empty allowlist
mains_path_allowed(p) ==
    LET path == IF p = << >> THEN << "" >> ELSE p
    IN  path[1] \notin mains_BlockedFirstSegments

\* looks_like_html of src/mains.py, the same test as in src/3.py
mains_looks_like_html(url) == Lower(IF url.path = << >> THEN ""
                                    ELSE url.path[Len(url.path)])
                                 \notin SkipSegments

\* extract_links(html_text, url)
mains_extract_links(page, base_url) ==
    {mains_normalize_url(h, base_url) : h \in {x \in page.links : x # NoUrl}}

\* The pages of the site this crawl runs on: the start page links to "/",
\* "/a" and "mailto:x", the page /a to "/a/", "/#top" and "/f.png".
MailSitePage(url) ==
    IF url = Root
    THEN [status |-> "html", title |-> "Home", body |-> "home",
          links |-> {MkRef(<< "" >>, FALSE), MkRef(<< "a" >>, FALSE), MailTo}]
    ELSE IF url = PageA
    THEN [status |-> "html", title |-> "Twin", body |-> "twin",
          links |-> {MkRef(<< "a", "" >>, FALSE), MkRef(<< "" >>, TRUE),
                     MkRef(<< "f.png" >>, FALSE)}]
    ELSE [status |-> "html", title |-> None, body |-> "other", links |-> {}]

\* What the site serves for a URL as requested: "https://ex.com/" and
\* "https://ex.com" are the same request.
Served(url) == MailSitePage([url EXCEPT !.path = RStripSlash(url.path)])

\* How a call of fetch_page_selenium of src/mains.py can end: with the page
\* source (with or without "<html"), with None after MAX_RETRY failed
\* passes, or with an exception that is neither WebDriverException nor
\* TimeoutException.
MailFetchOutcomes(url) ==
    {[Served(url) EXCEPT !.status = "text", !.links = {}], Served(url), NoPage}

\* save_markdown's filename: "<title or path>__<path or root>.md"
mains_filename(url, title) ==
    [base_title |-> IF title # None THEN << title >> ELSE url.path,
     safe_path |-> IF LStripSlash(RStripSlash(url.path)) = << >>
                   THEN << "root" >>
                   ELSE LStripSlash(RStripSlash(url.path))]

\* What no step of the crawl of src/mains.py changes.
mail_frame ==
    << visited_lock, content_hashes, content_hashes_lock, crawled_files,
       crawled_urls_to_filenames, crawled_files_lock, first_decision,
       duplicate_of, start_url, render_log, fetch_failed, others >>

MailInit ==
    /\ start_url = START_URL
    /\ q = << start_url >>
    /\ unfinished = 1
    /\ visited = {}
    /\ visited_lock = 0
    /\ content_hashes = EmptyDict
    /\ content_hashes_lock = 0
    /\ crawled_files = EmptyDict
    /\ crawled_urls_to_filenames = EmptyDict
    /\ crawled_files_lock = 0
    /\ disk = EmptyDict
    /\ pc = [w \in Workers |-> "get"]
    /\ normalized_url = [w \in Workers |-> NoUrl]
    /\ html_text = [w \in Workers |-> NoPage]
    /\ links = [w \in Workers |-> {}]
    /\ main = "join"
    /\ fetch_count = EmptyDict
    /\ first_decision = EmptyDict
    /\ duplicate_of = EmptyDict
    /\ render_log = [w \in Workers |-> << >>]
    /\ fetch_failed = {}
    /\ DetectIdle
    /\ NormIdle
    /\ ExtraIdle

\* url = q.get_nowait()
MailDequeue(w) ==
    /\ pc[w] = "get"
    /\ q # << >>
    /\ q' = Tail(q)
    /\ normalized_url' = [normalized_url EXCEPT ![w] = Head(q)]
    /\ pc' = [pc EXCEPT ![w] = "visited_check"]
    /\ UNCHANGED << unfinished, visited, disk, html_text, links, main,
                    fetch_count, mail_frame >>

\* except queue.Empty: return
MailWorkerExit(w) ==
    /\ pc[w] = "get"
    /\ q = << >>
    /\ pc' = [pc EXCEPT ![w] = "exited"]
    /\ UNCHANGED << q, unfinished, visited, disk, normalized_url, html_text,
                    links, main, fetch_count, mail_frame >>

\* with visited_lock: if url in visited: q.task_done(); continue
\*                    visited.add(url)
\* and, for a URL that does not look like HTML, q.task_done(); continue
MailVisit(w) ==
    /\ pc[w] = "visited_check"
    /\ visited' = visited \cup {normalized_url[w]}
    /\ pc' = [pc EXCEPT ![w] =
                 IF normalized_url[w] \in visited
                    \/ ~mains_looks_like_html(normalized_url[w])
                 THEN "task_done" ELSE "fetch"]
    /\ UNCHANGED << q, unfinished, disk, normalized_url, html_text, links,
                    main, fetch_count, mail_frame >>

\* html_text = fetch_page_selenium(url); without HTML the task is done;
\* else save_markdown(output_dir, url, html_text) and the links of the page
\* that pass is_same_domain and path_allowed.
MailFetch(w) ==
    /\ pc[w] = "fetch"
    /\ fetch_count' = Put(fetch_count, normalized_url[w],
                          Count(normalized_url[w]) + 1)
    /\ \/ \E r \in MailFetchOutcomes(normalized_url[w]) :
             IF r.status = "html"
             THEN /\ disk' = Put(disk,
                                 mains_filename(normalized_url[w], r.title),
                                 html_to_markdown(r, normalized_url[w]))
                  /\ links' = [links EXCEPT ![w] =
                        {l \in mains_extract_links(r, normalized_url[w]) :
                            /\ mains_is_same_domain(l, base_netloc)
                            /\ mains_path_allowed(l.path)}]
                  /\ pc' = [pc EXCEPT ![w] =
                        IF links'[w] = {} THEN "task_done" ELSE "links"]
             ELSE /\ pc' = [pc EXCEPT ![w] = "task_done"]
                  /\ UNCHANGED << disk, links >>
       \/ /\ pc' = [pc EXCEPT ![w] = "raised"]
          /\ UNCHANGED << disk, links >>
    /\ UNCHANGED << q, unfinished, visited, normalized_url, html_text, main,
                    mail_frame >>

\* One round of the link loop:
\* with visited_lock: if link not in visited: q.put(link)
MailEnqueueLink(w) ==
    /\ pc[w] = "links"
    /\ \E link \in links[w] :
          /\ IF link \notin visited
             THEN /\ q' = Append(q, link)
                  /\ unfinished' = unfinished + 1
             ELSE UNCHANGED << q, unfinished >>
          /\ links' = [links EXCEPT ![w] = links[w] \ {link}]
          /\ pc' = [pc EXCEPT ![w] = IF links[w] = {link} THEN "task_done"
                                     ELSE "links"]
    /\ UNCHANGED << visited, disk, normalized_url, html_text, main,
                    fetch_count, mail_frame >>

\* q.task_done()
MailTaskDone(w) ==
    /\ pc[w] = "task_done"
    /\ unfinished' = unfinished - 1
    /\ pc' = [pc EXCEPT ![w] = "get"]
    /\ normalized_url' = [normalized_url EXCEPT ![w] = NoUrl]
    /\ UNCHANGED << q, visited, disk, html_text, links, main, fetch_count,
                    mail_frame >>

\* q.join() returns, and crawl returns output_dir
MailJoin ==
    /\ main = "join"
    /\ unfinished = 0
    /\ main' = "returned"
    /\ UNCHANGED << q, unfinished, visited, disk, pc, normalized_url,
                    html_text, links, fetch_count, mail_frame >>

MailNext ==
    \/ \E w \in Workers : MailDequeue(w)
    \/ \E w \in Workers : MailWorkerExit(w)
    \/ \E w \in Workers : MailVisit(w)
    \/ \E w \in Workers : MailFetch(w)
    \/ \E w \in Workers : MailEnqueueLink(w)
    \/ \E w \in Workers : MailTaskDone(w)
    \/ MailJoin

SpecMail == MailInit /\ [][MailNext]_vars

(***************************************************************************)
(* THE BATCH CRAWLER: crawl_website and fetch_and_process (src/s.py)       *)
(*                                                                         *)
(* crawl_website takes up to max_workers URLs from the frontier, runs one  *)
(* fetch_and_process task per URL on a thread pool and waits for all of    *)
(* them before it takes the next batch.  A task is numbered by the         *)
(* position of its URL in the batch.  The hrefs of a page are gone through *)
(* in document order.                                                      *)
(***************************************************************************)
PageD == MkUrl(base_netloc, << "d" >>)

\* The hrefs of the pages of the site: the start page has "/a", "/b", "/"
\* and "/a#x"; /a and /b both have "/c" and "/d", with or without a slash at
\* the end, /c and /d both have "/e".
BatchSitePage(url) ==
    IF url = Root
    THEN << MkRef(<< "a" >>, FALSE), MkRef(<< "b" >>, FALSE),
            MkRef(<< "" >>, FALSE), MkRef(<< "a" >>, TRUE) >>
    ELSE IF url = PageA
    THEN << MkRef(<< "c" >>, FALSE), MkRef(<< "d", "" >>, FALSE),
            MkUrl("other.org", << "a" >>) >>
    ELSE IF url = PageB
    THEN << MkRef(<< "d" >>, FALSE), MkRef(<< "c", "" >>, FALSE) >>
    ELSE IF url = PageC
    THEN << MkRef(<< "a", "" >>, FALSE), MkRef(<< "e" >>, FALSE) >>
    ELSE IF url = PageD
    THEN << MkRef(<< "e", "" >>, FALSE), MkRef(<< "a-b" >>, FALSE) >>
    ELSE IF url = MkUrl(base_netloc, << "e" >>)
    THEN << MkRef(<< "a", "b" >>, FALSE) >>
    ELSE << >>

\* How requests.get and raise_for_status can end: with the page, or with an
\* exception, which fetch_and_process catches.
GetOutcomes == {"page", "error"}

\* base_url = base_url.rstrip('/')
base_url == [start_url EXCEPT !.path = RStripSlash(start_url.path)]

\* abs_url = urljoin(url, href)
\* parsed_abs.netloc == domain and not parsed_abs.fragment
Followed(url, href_) ==
    /\ urljoin(url, href_).netloc = base_url.netloc
    /\ ~urljoin(url, href_).frag

\* normalized = abs_url.split('#')[0].rstrip('/')
normalized(url, href_) ==
    [urljoin(url, href_) EXCEPT !.path = RStripSlash(urljoin(url, href_).path),
                                !.frag = FALSE]

\* The text of a path segment, cut at its hyphens.
Pieces(segment) ==
    IF segment = "a-b" THEN << "a", "-", "b" >> ELSE << segment >>

\* path.replace('/', '-')
RECURSIVE DashJoin(_)
DashJoin(path) ==
    IF path = << >> THEN << >>
    ELSE IF Len(path) = 1 THEN Pieces(path[1])
    ELSE Pieces(path[1]) \o << "-" >> \o DashJoin(Tail(path))

\* get_page_name(url): 'index.md' for an empty path.strip('/'), otherwise
\* the path with '-' for '/' and ".md"
get_page_name(url) ==
    LET path == LStripSlash(RStripSlash(url.path))
    IN  IF path = << >> THEN << "index", ".md" >>
        ELSE DashJoin(path) \o << ".md" >>

\* The tasks of the batch.
Tasks == DOMAIN urls

\* What no step of the batch crawler changes.
batch_frame ==
    << q, unfinished, visited_lock, content_hashes, content_hashes_lock,
       crawled_files, crawled_urls_to_filenames, crawled_files_lock, pc,
       normalized_url, html_text, links, main, first_decision, duplicate_of,
       start_url, render_log, fetch_failed, detect_vars, norm_vars,
       main_vars, max_workers, tool_vars >>

BatchInit ==
    /\ start_url = START_URL
    /\ q = << >>
    /\ unfinished = 0
    /\ visited = {base_url}
    /\ visited_lock = 0
    /\ content_hashes = EmptyDict
    /\ content_hashes_lock = 0
    /\ crawled_files = EmptyDict
    /\ crawled_urls_to_filenames = EmptyDict
    /\ crawled_files_lock = 0
    /\ disk = EmptyDict
    /\ pc = [w \in Workers |-> "exited"]
    /\ normalized_url = [w \in Workers |-> NoUrl]
    /\ html_text = [w \in Workers |-> NoPage]
    /\ links = [w \in Workers |-> {}]
    /\ main = "idle"
    /\ fetch_count = EmptyDict
    /\ first_decision = EmptyDict
    /\ duplicate_of = EmptyDict
    /\ render_log = [w \in Workers |-> << >>]
    /\ fetch_failed = {}
    /\ DetectIdle
    /\ NormIdle
    /\ MainIdle
    /\ ToolIdle
    /\ max_workers \in 1..NumWorkers
    /\ frontier = << base_url >>
    /\ lock = 0
    /\ urls = << >>
    /\ task_pc = << >>
    /\ task_links = << >>
    /\ put_count = Put(EmptyDict, base_url, 1)
    /\ saved_as = EmptyDict
    /\ batch_pc = "loop"

\* while not frontier.empty(): up to max_workers URLs are taken and one task
\* per URL is submitted
TakeBatch ==
    /\ batch_pc = "loop"
    /\ frontier # << >>
    /\ LET n == IF Len(frontier) < max_workers THEN Len(frontier)
                ELSE max_workers
       IN  /\ urls' = SubSeq(frontier, 1, n)
           /\ frontier' = SubSeq(frontier, n + 1, Len(frontier))
           /\ task_pc' = [t \in 1..n |-> "get"]
           /\ task_links' = [t \in 1..n |-> << >>]
    /\ batch_pc' = "wait"
    /\ UNCHANGED << visited, fetch_count, lock, put_count, disk,
                    saved_as, batch_frame >>

\* requests.get(url): with the page, save_content(md_content, page_name,
\* output_dir), md_content being html2text of the page served for the URL,
\* and the task goes on to its hrefs; an exception ends the task
TaskGet(t) ==
    /\ batch_pc = "wait"
    /\ t \in Tasks
    /\ task_pc[t] = "get"
    /\ fetch_count' = Put(fetch_count, urls[t], Count(urls[t]) + 1)
    /\ \E outcome \in GetOutcomes :
          IF outcome = "page"
          THEN /\ disk' = Put(disk, get_page_name(urls[t]),
                              [markdown_of |-> urls[t]])
               /\ saved_as' = Put(saved_as, urls[t], get_page_name(urls[t]))
               /\ task_links' = [task_links EXCEPT ![t] = BatchSitePage(urls[t])]
               /\ task_pc' = [task_pc EXCEPT ![t] =
                                 IF BatchSitePage(urls[t]) # << >> THEN "href"
                                 ELSE "done"]
          ELSE /\ task_pc' = [task_pc EXCEPT ![t] = "done"]
               /\ UNCHANGED << task_links, disk, saved_as >>
    /\ UNCHANGED << visited, frontier, lock, urls, put_count, batch_pc,
                    batch_frame >>

\* The next href of the page is not followed: another authority, or a
\* fragment.
TaskSkipHref(t) ==
    /\ batch_pc = "wait"
    /\ t \in Tasks
    /\ task_pc[t] = "href"
    /\ ~Followed(urls[t], Head(task_links[t]))
    /\ task_links' = [task_links EXCEPT ![t] = Tail(task_links[t])]
    /\ task_pc' = [task_pc EXCEPT ![t] =
                      IF Tail(task_links[t]) = << >> THEN "done" ELSE "href"]
    /\ UNCHANGED << visited, fetch_count, frontier, lock, urls, put_count,
                    batch_pc, disk,
                    saved_as, batch_frame >>

\* TaskTest without the lock: the test does not wait for the task that is
\* between its own test and its visited.add.
TaskTestNoLock(t) ==
    /\ batch_pc = "wait"
    /\ t \in Tasks
    /\ task_pc[t] = "href"
    /\ Followed(urls[t], Head(task_links[t]))
    /\ IF normalized(urls[t], Head(task_links[t])) \notin visited
       THEN /\ task_pc' = [task_pc EXCEPT ![t] = "put"]
            /\ UNCHANGED << task_links, lock >>
       ELSE /\ task_links' = [task_links EXCEPT ![t] = Tail(task_links[t])]
            /\ task_pc' = [task_pc EXCEPT ![t] =
                  IF Tail(task_links[t]) = << >> THEN "done" ELSE "href"]
            /\ UNCHANGED lock
    /\ UNCHANGED << visited, fetch_count, frontier, urls, put_count,
                    batch_pc, disk,
                    saved_as, batch_frame >>

\* with lock: if normalized not in visited; a URL that is in visited ends
\* the block
TaskTest(t) ==
    /\ batch_pc = "wait"
    /\ t \in Tasks
    /\ task_pc[t] = "href"
    /\ Followed(urls[t], Head(task_links[t]))
    /\ lock = 0
    /\ IF normalized(urls[t], Head(task_links[t])) \notin visited
       THEN /\ lock' = t
            /\ task_pc' = [task_pc EXCEPT ![t] = "put"]
            /\ UNCHANGED task_links
       ELSE /\ task_links' = [task_links EXCEPT ![t] = Tail(task_links[t])]
            /\ task_pc' = [task_pc EXCEPT ![t] =
                  IF Tail(task_links[t]) = << >> THEN "done" ELSE "href"]
            /\ UNCHANGED lock
    /\ UNCHANGED << visited, fetch_count, frontier, urls, put_count,
                    batch_pc, disk,
                    saved_as, batch_frame >>

\* visited.add(normalized); frontier.put(normalized), the end of the block
TaskPut(t) ==
    /\ batch_pc = "wait"
    /\ t \in Tasks
    /\ task_pc[t] = "put"
    /\ LET n == normalized(urls[t], Head(task_links[t]))
       IN  /\ visited' = visited \cup {n}
           /\ frontier' = Append(frontier, n)
           /\ put_count' = Put(put_count, n, Lookup(put_count, n, 0) + 1)
    /\ lock' = 0
    /\ task_links' = [task_links EXCEPT ![t] = Tail(task_links[t])]
    /\ task_pc' = [task_pc EXCEPT ![t] =
                      IF Tail(task_links[t]) = << >> THEN "done" ELSE "href"]
    /\ UNCHANGED << fetch_count, urls, batch_pc, disk,
                    saved_as, batch_frame >>

\* for future in futures: future.result() has returned for every task
BatchDone ==
    /\ batch_pc = "wait"
    /\ \A t \in Tasks : task_pc[t] = "done"
    /\ urls' = << >>
    /\ task_pc' = << >>
    /\ task_links' = << >>
    /\ batch_pc' = "loop"
    /\ UNCHANGED << visited, fetch_count, frontier, lock, put_count,
                    disk,
                    saved_as, batch_frame >>

\* The frontier is empty: crawl_website returns.
BatchReturn ==
    /\ batch_pc = "loop"
    /\ frontier = << >>
    /\ batch_pc' = "returned"
    /\ UNCHANGED << visited, fetch_count, frontier, lock, urls, task_pc,
                    task_links, put_count, disk,
                    saved_as, batch_frame >>

BatchNext ==
    \/ TakeBatch
    \/ \E t \in Workers : TaskGet(t)
    \/ \E t \in Workers : TaskSkipHref(t)
    \/ \E t \in Workers : TaskTest(t)
    \/ \E t \in Workers : TaskPut(t)
    \/ BatchDone
    \/ BatchReturn

SpecBatch == BatchInit /\ [][BatchNext]_vars

(***************************************************************************)
(* SNAPSHOT COMPARISON: compare_snapshots and compare_files                *)
(* (src/Changes.py)                                                        *)
(*                                                                         *)
(* A filename is the sequence of its stem and its extensions; the text of  *)
(* a file is the sequence of its lines, each with its terminator.          *)
(***************************************************************************)
SnapTexts ==
    {<< >>, << [body |-> "X", eol |-> "LF"] >>,
     << [body |-> "X", eol |-> "CRLF"] >>, << [body |-> "Y", eol |-> "LF"] >>}

\* The directories: some of the names a.md and b.md, each with a text.
SnapDirs ==
    UNION {[S -> SnapTexts] :
              S \in SUBSET {<< "a", ".md" >>, << "b", ".md" >>}}

\* {f: os.path.join(dir, f) for f in os.listdir(dir) if f.endswith(".md")},
\* each path with the text of its file: old_files and new_files
MdFiles(dir) ==
    [f \in {g \in DOMAIN dir : g # << >> /\ g[Len(g)] = ".md"} |-> dir[f]]

\* f.readlines() of a file opened with open(path, "r"): the lines, every
\* terminator translated to "\n"
readlines(text) ==
    [i \in DOMAIN text |-> [body |-> text[i].body, eol |-> "LF"]]

\* list(difflib.unified_diff(old_text, new_text, ...)): empty when the two
\* lists are equal, otherwise the header and the hunks
unified_diff(old_text, new_text) ==
    IF old_text = new_text THEN << >>
    ELSE << [fromfile |-> old_text, tofile |-> new_text] >>

\* page_name = filename.replace(".md", "") and
\* os.path.join(output_dir, f"{page_name}_changes.md")
changes_file(f) ==
    SelectSeq(f, LAMBDA t : t # ".md") \o << "_changes", ".md" >>

SnapInit ==
    /\ CrawlIdle
    /\ DetectIdle
    /\ NormIdle
    /\ MainIdle
    /\ BatchIdle
    /\ DiffsIdle
    /\ New2Idle
    /\ old_dir \in SnapDirs
    /\ new_dir \in SnapDirs
    /\ snap_todo = {}
    /\ printed = << >>
    /\ changes_files = << >>
    /\ snap_pc = "start"

\* os.makedirs(output_dir), old_files and new_files
ListSnapshots ==
    /\ snap_pc = "start"
    /\ snap_todo' = DOMAIN MdFiles(new_dir)
    /\ snap_pc' = "loop"
    /\ UNCHANGED << printed, changes_files, old_dir, new_dir,
                    diffs_vars, new2_vars, tool_frame >>

\* One round of the loop with filename in old_files:
\* compare_files(old_files[fname], new_path, output_dir)
CompareFiles ==
    /\ snap_pc = "loop"
    /\ \E fname \in snap_todo :
          /\ fname \in DOMAIN MdFiles(old_dir)
          /\ LET old_text == readlines(MdFiles(old_dir)[fname])
                 new_text == readlines(MdFiles(new_dir)[fname])
                 diff == unified_diff(old_text, new_text)
             IN  IF diff # << >>
                 THEN /\ changes_files' =
                            Put(changes_files, changes_file(fname),
                                [title |-> "Changes in", body |-> diff])
                      /\ printed' =
                            Append(printed, [text |-> "Changes found",
                                             filename |-> fname])
                 ELSE /\ printed' =
                            Append(printed, [text |-> "No changes",
                                             filename |-> fname])
                      /\ UNCHANGED changes_files
          /\ snap_todo' = snap_todo \ {fname}
    /\ UNCHANGED << snap_pc, old_dir, new_dir,
                    diffs_vars, new2_vars, tool_frame >>

\* One round of the loop with filename not in old_files: the new file is
\* copied under a heading.
NewPage ==
    /\ snap_pc = "loop"
    /\ \E fname \in snap_todo :
          /\ fname \notin DOMAIN MdFiles(old_dir)
          /\ printed' = Append(printed, [text |-> "New page detected",
                                         filename |-> fname])
          /\ changes_files' =
                Put(changes_files, changes_file(fname),
                    [title |-> "New page detected",
                     body |-> readlines(MdFiles(new_dir)[fname])])
          /\ snap_todo' = snap_todo \ {fname}
    /\ UNCHANGED << snap_pc, old_dir, new_dir,
                    diffs_vars, new2_vars, tool_frame >>

\* The loop is over: compare_snapshots returns.
SnapReturn ==
    /\ snap_pc = "loop"
    /\ snap_todo = {}
    /\ snap_pc' = "done"
    /\ UNCHANGED << snap_todo, printed, changes_files, old_dir, new_dir,
                    diffs_vars, new2_vars, tool_frame >>

SnapNext ==
    \/ ListSnapshots
    \/ CompareFiles
    \/ NewPage
    \/ SnapReturn

SpecSnap == SnapInit /\ [][SnapNext]_vars

(***************************************************************************)
(* generate_diffs (src/mains.py) ON PAIRS OF BOUNDED DICTS                 *)
(***************************************************************************)
\* The mappings read_all_pages gives for the two snapshots: at most two
\* files, with one line of text or none.
DiffsDicts ==
    {d \in Dicts :
        \A i \in DOMAIN d :
           d[i].k \in {FileNames[1], FileNames[2]} /\ d[i].v \in {"", "X", "Y"}}

\* pages.get(fname, "")
GetOrEmpty(d, f) == IF f \in Keys(d) THEN Get(d, f) ELSE ""

\* text.splitlines(keepends=True) of a text of at most one line
splitlines(text) == IF text = "" THEN << >> ELSE << text >>

DiffsInit ==
    /\ CrawlIdle
    /\ NormIdle
    /\ MainIdle
    /\ BatchIdle
    /\ SnapIdle
    /\ New2Idle
    /\ old_pages \in DiffsDicts
    /\ new_pages \in DiffsDicts
    /\ changes = << >>
    /\ detect_pc = "idle"
    /\ all_files = << >>
    /\ diffs = << >>
    /\ diffs_pc = "start"

\* diffs = {} and all_files = set(old_pages) | set(new_pages), sorted
DiffsStart ==
    /\ diffs_pc = "start"
    /\ all_files' = sorted(Keys(old_pages) \cup Keys(new_pages))
    /\ diffs_pc' = "loop"
    /\ UNCHANGED << diffs, snap_vars,
                    new2_vars, tool_frame >>

\* One round of the loop: `continue` when the two lists of lines are equal,
\* otherwise diffs[fname] = the joined unified diff, modelled by its two
\* headers and its hunk.
DiffsRound ==
    /\ diffs_pc = "loop"
    /\ all_files # << >>
    /\ LET fname == Head(all_files)
           old == splitlines(GetOrEmpty(old_pages, fname))
           new == splitlines(GetOrEmpty(new_pages, fname))
       IN  diffs' = IF old = new THEN diffs
                    ELSE Put(diffs, fname,
                             [fromfile |-> << "old/", fname >>,
                              tofile |-> << "new/", fname >>,
                              removed |-> old, added |-> new])
    /\ all_files' = Tail(all_files)
    /\ UNCHANGED << diffs_pc, snap_vars,
                    new2_vars, tool_frame >>

\* return diffs
DiffsReturn ==
    /\ diffs_pc = "loop"
    /\ all_files = << >>
    /\ diffs_pc' = "done"
    /\ UNCHANGED << all_files, diffs, snap_vars,
                    new2_vars, tool_frame >>

DiffsNext ==
    \/ DiffsStart
    \/ DiffsRound
    \/ DiffsReturn

SpecDiffs == DiffsInit /\ [][DiffsNext]_vars

(***************************************************************************)
(* THE RECURSIVE CRAWLER: crawl and worker (src/new2.py)                   *)
(*                                                                         *)
(* A URL string is the sequence of its pieces: "https://", the pieces of   *)
(* the authority and the pieces of the path, cut so that the start         *)
(* authority is one piece wherever it occurs.  An href is absolute, or a   *)
(* path from the root (its authority is empty).                            *)
(***************************************************************************)
Href(netloc, path) == [netloc |-> netloc, path |-> path]

new2_Home == Href(<< "ex.com" >>, << "/" >>)

new2_PageA == Href(<< "ex.com" >>, << "/", "a" >>)

\* Another host whose name begins with the start authority.
new2_Lookalike == Href(<< "ex.com", ".evil.org" >>, << "/" >>)

\* The values of a["href"] of the <a href> elements of driver.page_source,
\* in document order.  The start page links to another host and to a page
\* of it whose path names the start authority.
new2_Hrefs(url) ==
    IF url = new2_Home
    THEN << Href(<< >>, << "/", "a" >>), new2_Lookalike,
            Href(<< "other.org" >>, << "/" >>),
            Href(<< "other.org" >>, << "/", "ex.com" >>) >>
    ELSE IF url = new2_PageA
    THEN << Href(<< >>, << "/" >>), Href(<< >>, << "/", "b" >>) >>
    ELSE IF url = new2_Lookalike
    THEN << Href(<< >>, << "/", "a" >>),
            Href(<< "ex.com" >>, << "/", "b" >>) >>
    ELSE << >>

\* urljoin(url, link["href"])
new2_urljoin(url, link) ==
    IF link.netloc = << >> THEN Href(url.netloc, link.path) ELSE link

\* `pattern in url` for a str and a URL, the URL as a str
Contains(url, pattern) ==
    LET text == << "https://" >> \o url.netloc \o url.path
    IN  \E i \in 1..(Len(text) - Len(pattern) + 1) :
           SubSeq(text, i, i + Len(pattern) - 1) = pattern

\* urlparse(args.url).netloc
domain == args.url.netloc

\* A call of crawl(url, domain, driver, output_dir): where it is and the
\* links of its loop still to do.
Call(url, at, todo) == [url |-> url, at |-> at, todo |-> todo]

Top(t) == calls[t][Len(calls[t])]

\* The stack without its last call.
Pop(stack) == SubSeq(stack, 1, Len(stack) - 1)

\* The stack with its last call replaced.
SetTop(stack, call) == Append(Pop(stack), call)

New2Init ==
    /\ CrawlIdle
    /\ DetectIdle
    /\ NormIdle
    /\ MainIdle
    /\ BatchIdle
    /\ SnapIdle
    /\ DiffsIdle
    /\ \E u \in {new2_Home, new2_PageA}, n \in Workers :
          /\ args = [url |-> u, threads |-> n]
          /\ thread_pc = [t \in Workers |->
                             IF t <= n THEN "start" ELSE "unstarted"]
    /\ new2_visited = {}
    /\ calls = [t \in Workers |-> << >>]
    /\ got = {}

\* worker: webdriver.Chrome() and crawl(start_url, domain, driver, ...)
WorkerCall(t) ==
    /\ thread_pc[t] = "start"
    /\ thread_pc' = [thread_pc EXCEPT ![t] = "crawl"]
    /\ calls' = [calls EXCEPT ![t] = << Call(args.url, "enter", << >>) >>]
    /\ UNCHANGED << new2_visited, got, args, snap_vars,
                    diffs_vars, tool_frame >>

\* with lock: return if url in visited, else visited.add(url)
CrawlEnter(t) ==
    /\ thread_pc[t] = "crawl"
    /\ calls[t] # << >>
    /\ Top(t).at = "enter"
    /\ IF Top(t).url \in new2_visited
       THEN /\ calls' = [calls EXCEPT ![t] = Pop(calls[t])]
            /\ UNCHANGED new2_visited
       ELSE /\ new2_visited' = new2_visited \cup {Top(t).url}
            /\ calls' = [calls EXCEPT ![t] =
                            SetTop(calls[t], Call(Top(t).url, "get", << >>))]
    /\ UNCHANGED << thread_pc, got, args, snap_vars,
                    diffs_vars, tool_frame >>

\* driver.get(url), page_source, save_as_markdown and find_all; an
\* exception ends the call in its except clause.
CrawlGet(t) ==
    /\ thread_pc[t] = "crawl"
    /\ calls[t] # << >>
    /\ Top(t).at = "get"
    /\ got' = got \cup {Top(t).url}
    /\ \E outcome \in {"ok", "raise"} :
          calls' = [calls EXCEPT ![t] =
                       IF outcome = "ok"
                       THEN SetTop(calls[t],
                                   Call(Top(t).url, "links",
                                        new2_Hrefs(Top(t).url)))
                       ELSE Pop(calls[t])]
    /\ UNCHANGED << thread_pc, new2_visited, args, snap_vars,
                    diffs_vars, tool_frame >>

\* One round of the loop over the links: new_url, the test
\* `domain in new_url and new_url not in visited`, and the recursive call.
CrawlLink(t) ==
    /\ thread_pc[t] = "crawl"
    /\ calls[t] # << >>
    /\ Top(t).at = "links"
    /\ Top(t).todo # << >>
    /\ LET new_url == new2_urljoin(Top(t).url, Head(Top(t).todo))
           rest == SetTop(calls[t],
                          Call(Top(t).url, "links", Tail(Top(t).todo)))
       IN  calls' = [calls EXCEPT ![t] =
                        IF Contains(new_url, domain)
                           /\ new_url \notin new2_visited
                        THEN Append(rest, Call(new_url, "enter", << >>))
                        ELSE rest]
    /\ UNCHANGED << thread_pc, new2_visited, got, args, snap_vars,
                    diffs_vars, tool_frame >>

\* The loop is over: the call returns.
CrawlReturn(t) ==
    /\ thread_pc[t] = "crawl"
    /\ calls[t] # << >>
    /\ Top(t).at = "links"
    /\ Top(t).todo = << >>
    /\ calls' = [calls EXCEPT ![t] = Pop(calls[t])]
    /\ UNCHANGED << thread_pc, new2_visited, got, args, snap_vars,
                    diffs_vars, tool_frame >>

\* crawl(start_url, ...) has returned: driver.quit()
WorkerQuit(t) ==
    /\ thread_pc[t] = "crawl"
    /\ calls[t] = << >>
    /\ thread_pc' = [thread_pc EXCEPT ![t] = "quit"]
    /\ UNCHANGED << calls, new2_visited, got, args, snap_vars,
                    diffs_vars, tool_frame >>

New2Next ==
    \E t \in Workers :
       \/ WorkerCall(t)
       \/ CrawlEnter(t)
       \/ CrawlGet(t)
       \/ CrawlLink(t)
       \/ CrawlReturn(t)
       \/ WorkerQuit(t)

SpecNew2 == New2Init /\ [][New2Next]_vars

(***************************************************************************)
(* PROPERTIES OF THE CRAWL (specification Spec)                            *)
(***************************************************************************)
\* The worker is between the test-and-set of visited that it passed and its
\* q.task_done().
InTask(w) ==
    pc[w] \in {"fetch", "fetched", "hash_check", "hash_insert", "duplicate", "save",
               "record", "links"}

\* C1: each normalized URL is passed to fetch_page_selenium at most once in a
\* run, and no two workers are past the visited test-and-set with the same
\* URL: of the workers that dequeue entries normalizing to one URL, one
\* passes and the others discard the task.
C1_FetchedAtMostOnce ==
    /\ \A u \in DOMAIN fetch_count : fetch_count[u] <= 1
    /\ \A w1, w2 \in Workers :
          w1 # w2 /\ InTask(w1) /\ InTask(w2)
             => normalized_url[w1] # normalized_url[w2]

\* A worker has discarded its task on a URL that another worker has fetched
\* and is still working on.
C1_Witness ==
    \E w1, w2 \in Workers :
       /\ w1 # w2
       /\ pc[w1] = "task_done"
       /\ InTask(w2)
       /\ normalized_url[w1] = normalized_url[w2]
       /\ Count(normalized_url[w2]) = 1

\* A worker's task on URL u is over.
TaskOver(u) == \A w \in Workers : normalized_url[w] = u => pc[w] \in {"get", "exited"}

\* C2: a URL whose content hash already had an owner when its worker reached
\* the dedup decision has, once that task is over, created no file, and the
\* URL -> filename map sends it to the filename of the owner.
C2_AliasToOwner ==
    \A u \in DOMAIN duplicate_of :
       TaskOver(u) /\ TaskOver(duplicate_of[u])
          => /\ \A f \in DOMAIN crawled_files : crawled_files[f].source # u
             /\ u \in DOMAIN crawled_urls_to_filenames
             /\ duplicate_of[u] \in DOMAIN crawled_urls_to_filenames
             /\ crawled_urls_to_filenames[u]
                   = crawled_urls_to_filenames[duplicate_of[u]]

\* C3: when crawl has returned, no two files, of the returned mapping or of
\* the output directory, hold the markdown of the same page content.
C3_OneFilePerPageContent ==
    main = "returned"
       => /\ \A f1, f2 \in DOMAIN crawled_files :
                crawled_files[f1].md = crawled_files[f2].md => f1 = f2
          /\ \A f1, f2 \in DOMAIN disk : disk[f1].md = disk[f2].md => f1 = f2

\* C4: when crawl has returned, no two distinct filenames of the returned
\* mapping crawled_files have identical content.
C4_DistinctContents ==
    main = "returned"
       => \A f1, f2 \in DOMAIN crawled_files :
             f1 # f2 => crawled_files[f1] # crawled_files[f2]

\* crawl has returned two files made from the same HTML.
C4_Witness ==
    /\ main = "returned"
    /\ \E f1, f2 \in DOMAIN crawled_files :
          f1 # f2 /\ crawled_files[f1].md = crawled_files[f2].md

\* C5: the owner recorded for a content hash is the first URL whose worker
\* reached the dedup decision with that hash and stays so (the entry is never
\* overwritten), and at most one worker is between the check and the insert
\* or the alias that follows it.
C5_OneOwnerPerHash ==
    /\ \A h \in DOMAIN content_hashes :
          h \in DOMAIN first_decision /\ content_hashes[h] = first_decision[h]
    /\ \A w1, w2 \in Workers :
          pc[w1] \in {"hash_insert", "duplicate"}
          /\ pc[w2] \in {"hash_insert", "duplicate"} => w1 = w2

\* A worker has found its hash owned by a URL whose worker has not finished
\* that URL's task yet: the two reached the decision concurrently.
C5_Witness ==
    \E w1, w2 \in Workers :
       /\ pc[w1] \in {"save", "record"}
       /\ pc[w2] = "duplicate"
       /\ content_hash(w1) = content_hash(w2)
       /\ content_hashes[content_hash(w2)] = normalized_url[w1]
       /\ normalized_url[w1] # normalized_url[w2]

\* C11: a failure inside a task is caught at the task level: no worker
\* thread is ended by an exception, the worker marking the task done and going
\* on to the next one.
C11_TaskFailureCaught == \A w \in Workers : pc[w] # "raised"

\* The run has stopped: neither the main thread nor a worker has a step left.
Stopped == ~ENABLED Next

\* Every call of fetch_page_selenium made so far has returned.
RenderReturns ==
    \A w \in Workers : pc[w] = "raised" => render_log[w] = << >>

\* C12: with at least one worker, when every page-render call returns, crawl
\* returns (a run stops only once crawl has returned); and when q.join() has
\* returned the queue is empty, no worker is in a task and every entry ever
\* put on the queue has been taken and marked done.
C12_ReturnsDrained ==
    /\ threads >= 1 /\ Stopped /\ RenderReturns => main = "returned"
    /\ main \in {"cleanup", "returned"}
          => /\ q = << >>
             /\ unfinished = 0
             /\ \A w \in Workers : pc[w] \in {"get", "exited", "unstarted"}

\* C13: every URL passed to fetch_page_selenium, the start URL included,
\* has passed the four scope checks: authority, blocklist, allowlist (both in
\* path_allowed) and skip extension.
C13_FetchedInScope ==
    \A u \in DOMAIN fetch_count :
       /\ is_same_domain(u, start_url.netloc)
       /\ path_allowed(u.path)
       /\ looks_like_html(u)

\* The URLs of the files of a filename -> markdown mapping.
Sources(files) == {files[f].source : f \in DOMAIN files}

Discovered ==
    UNION {extract_links(SitePage(u), u) :
             u \in DOMAIN crawled_urls_to_filenames \ DOMAIN duplicate_of}

\* C15: a discovered link whose path path_allowed rejects is never on the
\* queue and never fetched.
C15_BlockedLinkRejected ==
    \A l \in Discovered :
       ~path_allowed(l.path)
          => \A u \in {l, normalize_url(l, start_url)} :
                /\ \A i \in DOMAIN q : q[i] # u
                /\ u \notin DOMAIN fetch_count

\* The path of the URL ends, whatever the case of its letters, in one of
\* SKIP_EXTENSIONS.
EndsInSkipExtension(u) ==
    u.path # << >> /\ Lower(u.path[Len(u.path)]) \in SkipSegments

\* C16: a URL whose path ends in a skip extension is never passed to
\* fetch_page_selenium (its worker goes from the visited test straight to
\* q.task_done()) and has no file and no entry in the URL -> filename map.
C16_SkipExtensionNeverFetched ==
    /\ \A u \in DOMAIN fetch_count \cup DOMAIN crawled_urls_to_filenames
                \cup Sources(crawled_files) \cup Sources(disk) :
          ~EndsInSkipExtension(u)
    /\ \A w \in Workers :
          EndsInSkipExtension(normalized_url[w])
             => pc[w] \in {"visited_check", "visited_add", "task_done"}

\* crawl has returned after its workers took a ".png" and a ".PNG" URL off
\* the queue.
C16_Witness ==
    /\ main = "returned"
    /\ \E u1, u2 \in visited :
          /\ u1 # u2
          /\ EndsInSkipExtension(u1)
          /\ EndsInSkipExtension(u2)

\* C17: a URL is put on the queue at most once in a run: no two entries of
\* the queue hold the same URL.
C17_EnqueuedAtMostOnce ==
    \A i, j \in DOMAIN q : i # j => q[i] # q[j]

\* The pages recorded so far that link to URL u.
LinkingPages(u) ==
    {p \in DOMAIN crawled_urls_to_filenames \ DOMAIN duplicate_of :
        u \in {normalize_url(l, p) : l \in extract_links(SitePage(p), p)}}

\* C18: a URL for which fetch_page_selenium returned None or a response
\* without "<html" is in visited and was fetched once; it has no file, no
\* entry in the URL -> filename map and owns no content hash; and a worker
\* holding it is on its way to q.task_done() without a link loop.
C18_FailedFetchLeavesNothing ==
    \A u \in fetch_failed :
       /\ u \in visited
       /\ Count(u) = 1
       /\ u \notin DOMAIN crawled_urls_to_filenames
       /\ u \notin Sources(crawled_files) \cup Sources(disk)
       /\ \A h \in DOMAIN content_hashes : content_hashes[h] # u
       /\ \A w \in Workers :
             normalized_url[w] = u
                => pc[w] \in {"visited_check", "task_done"} /\ links[w] = {}

\* A worker has taken off the queue, once more, a URL whose fetch had failed,
\* and a page recorded since the failure links to that URL.
C18_Witness ==
    \E w \in Workers :
       /\ pc[w] = "visited_check"
       /\ normalized_url[w] \in fetch_failed
       /\ LinkingPages(normalized_url[w]) # {}

\* At most MAX_RETRY passes are made in a call, and a call that has returned
\* made no pass after a successful one and returned the page exactly when its
\* last pass was successful, None otherwise.
ReturnsFirstSuccess ==
    \A w \in Workers :
       /\ Len(render_log[w]) <= MAX_RETRY
       /\ pc[w] = "fetched"
             => /\ \A i \in 1..(Len(render_log[w]) - 1) :
                      render_log[w][i] # "page"
                /\ html_text[w] # NoPage
                      <=> render_log[w][Len(render_log[w])] = "page"

\* C19: fetch_page_selenium makes at most MAX_RETRY attempts, returns the
\* page of the first successful one without a further attempt, and once its
\* attempts have failed it reports the failure by returning None, after which
\* the worker goes on with the queue: no call ends in an exception.
C19_RetryThenReport ==
    /\ ReturnsFirstSuccess
    /\ \A w \in Workers : pc[w] = "raised" => render_log[w] = << >>

\* webdriver.Chrome has failed in every pass of the call the worker is in.
BackendInitFailed(w) ==
    /\ Len(render_log[w]) = MAX_RETRY
    /\ \A i \in DOMAIN render_log[w] : render_log[w][i] = "driver_failed"

\* C20: when the driver cannot be created in any pass of a call, the run is
\* aborted: fetch_page_selenium does not return to its worker as it does
\* after an ordinary failure.
C20_BackendFailureAborts ==
    \A w \in Workers : ~(pc[w] = "fetched" /\ BackendInitFailed(w))

\* C21: a run started with zero workers does not stop inside q.join(): it
\* ends with an error.
C21_ZeroWorkersFatal ==
    threads = 0 /\ Stopped => main # "join"

\* C22: when crawl returns, the .md files of the output directory are
\* exactly the keys of the returned filename -> content mapping, and each
\* file holds the content the mapping has for its name.
C22_DirectoryIsMapping ==
    main = "returned"
       => /\ DOMAIN disk = DOMAIN crawled_files
          /\ \A f \in DOMAIN disk : disk[f] = crawled_files[f]

\* A URL without fragment whose path ends neither in a default-document
\* name nor in a slash.
Canonical(u) ==
    /\ ~u.frag
    /\ u.path = << >>
          \/ (/\ u.path[Len(u.path)] # ""
              /\ u.path[Len(u.path)]
                    \notin {"index.php", "index.html", "home.html",
                            "default.html"})

\* C27: every URL in visited, and every key of crawled_urls_to_filenames, is
\* canonical.
C27_VisitedCanonical ==
    \A u \in visited \cup DOMAIN crawled_urls_to_filenames : Canonical(u)

\* A worker thread that has not returned.
Alive(w) == pc[w] \notin {"exited", "unstarted", "raised"}

\* No worker has crashed.
NoCrash == \A w \in Workers : pc[w] # "raised"

\* C31: a worker returns when it finds the queue empty, whatever the others
\* do; yet in a run with workers of which none has crashed, a non-empty
\* queue always has a worker alive, and the run does not stop with an entry
\* left on the queue: every URL put is taken.
C31_QueueNeverStranded ==
    threads >= 1 /\ NoCrash
       => /\ q # << >> => \E w \in Workers : Alive(w)
          /\ Stopped => q = << >>

\* One worker has returned on an empty queue while another was in a task,
\* and the queue has entries again.
C31_Witness ==
    /\ NoCrash
    /\ q # << >>
    /\ \E w1, w2 \in Workers : pc[w1] = "exited" /\ InTask(w2)

\* The locks a worker holds.
Held(w) ==
    {l \in {"visited_lock", "content_hashes_lock", "crawled_files_lock"} :
        \/ l = "visited_lock" /\ visited_lock = w
        \/ l = "content_hashes_lock" /\ content_hashes_lock = w
        \/ l = "crawled_files_lock" /\ crawled_files_lock = w}

\* The lock the worker's next step acquires, if any.
Wanted(w) ==
    IF pc[w] \in {"visited_check", "links"} THEN {"visited_lock"}
    ELSE IF pc[w] = "hash_check" THEN {"content_hashes_lock"}
    ELSE IF pc[w] \in {"duplicate", "record"} THEN {"crawled_files_lock"}
    ELSE {}

\* C32: visited_lock is never held together with another lock nor acquired
\* by a worker that holds one; crawled_files_lock is acquired by a worker
\* that holds content_hashes_lock or nothing, and a worker that holds
\* crawled_files_lock acquires nothing; no run stops with a worker waiting
\* for a lock or holding one.
C32_NoLockDeadlock ==
    /\ \A w \in Workers :
          /\ "visited_lock" \in Held(w) => Held(w) = {"visited_lock"}
          /\ "visited_lock" \in Wanted(w) => Held(w) = {}
          /\ "crawled_files_lock" \in Wanted(w)
                => Held(w) \subseteq {"content_hashes_lock"}
          /\ "crawled_files_lock" \in Held(w) => pc[w] \notin {"record"}
          /\ "content_hashes_lock" \in Wanted(w) => Held(w) = {}
    /\ Stopped
          => \A w \in Workers : Wanted(w) = {} /\ Held(w) = {}

\* One worker is in the duplicate branch, holding content_hashes_lock and
\* about to take crawled_files_lock, while another is about to take
\* crawled_files_lock for its own stores.
C32_Witness ==
    \E w1, w2 \in Workers :
       /\ pc[w1] = "duplicate"
       /\ content_hashes_lock = w1
       /\ pc[w2] = "record"

\* C33: every filename that is a value of crawled_urls_to_filenames is a key
\* of crawled_files, and every key of crawled_files is the filename mapped
\* for the URL that content_hashes records as the owner of the hash of the
\* content stored under that key.
C33_MapsAgree ==
    /\ \A u \in DOMAIN crawled_urls_to_filenames :
          crawled_urls_to_filenames[u] \in DOMAIN crawled_files
    /\ \A f \in DOMAIN crawled_files :
          LET h == ContentHash(crawled_files[f])
          IN  /\ h \in DOMAIN content_hashes
              /\ content_hashes[h] \in DOMAIN crawled_urls_to_filenames
              /\ crawled_urls_to_filenames[content_hashes[h]] = f

\* Both branches have acted: one URL is mapped to its own saved file and
\* another URL is an alias of it.
C33_Witness ==
    \E u1, u2 \in DOMAIN crawled_urls_to_filenames :
       /\ u1 # u2
       /\ crawled_urls_to_filenames[u1] = crawled_urls_to_filenames[u2]
       /\ u2 \in DOMAIN duplicate_of
       /\ duplicate_of[u2] = u1
       /\ Cardinality(DOMAIN crawled_files) >= 2

(***************************************************************************)
(* PROPERTIES OF THE CRAWL OF src/mains.py (specification SpecMail)        *)
(***************************************************************************)
\* The calls of fetch_page_selenium with a URL that normalizes to c.
FetchesOf(c) ==
    {u \in DOMAIN fetch_count : mains_normalize_url(u, start_url) = c}

\* C29: URLs that normalize identically are one crawl unit: of the URLs
\* with one canonical form at most one is fetched, and at most once, the
\* start URL with its trailing slash and its rediscovery as a link included.
C29_CanonicalFetchedOnce ==
    \A u \in DOMAIN fetch_count :
       /\ fetch_count[u] <= 1
       /\ FetchesOf(mains_normalize_url(u, start_url)) = {u}

(***************************************************************************)
(* PROPERTIES OF THE BATCH CRAWLER (specification SpecBatch)               *)
(***************************************************************************)
\* C30: for any number of workers and any interleaving of the tasks of a
\* batch, each normalized URL is put on the frontier at most once and
\* fetched at most once, and at most one task is between its test of visited
\* and its frontier.put.
C30_PutAndFetchedOnce ==
    /\ \A u \in DOMAIN put_count : put_count[u] <= 1
    /\ \A u \in DOMAIN fetch_count : fetch_count[u] <= 1
    /\ \A t1, t2 \in DOMAIN task_pc :
          task_pc[t1] = "put" /\ task_pc[t2] = "put" => t1 = t2

\* Two tasks of one batch at the same new URL: one is between its test and
\* its put, the other is about to test it.
C30_Witness ==
    \E t1, t2 \in DOMAIN task_pc :
       /\ t1 # t2
       /\ task_pc[t1] = "put"
       /\ task_pc[t2] = "href"
       /\ Followed(urls[t2], Head(task_links[t2]))
       /\ normalized(urls[t2], Head(task_links[t2]))
             = normalized(urls[t1], Head(task_links[t1]))

\* C38: two distinct URLs fetched in one run are never saved under the
\* same filename.
C38_DistinctFilenames ==
    \A u1, u2 \in DOMAIN saved_as :
       u1 # u2 => saved_as[u1] # saved_as[u2]

(***************************************************************************)
(* PROPERTIES OF main (specification SpecMain)                             *)
(***************************************************************************)
\* The earlier runs for the origin of the current run.
EarlierRuns == {i \in 1..(Len(history) - 1) : history[i].host = site}

\* The most recent of them.
Preceding == history[CHOOSE i \in EarlierRuns : \A j \in EarlierRuns : j <= i]

\* main is past list_crawl_folders and the choice of old_folder.
PastCompare == main_pc \in {"first_crawl", "notify", "summary", "done"}

\* C23: whatever the earlier runs, the old side of the comparison is the
\* snapshot of the most recent earlier run for the same origin, and there is
\* no comparison when there is no such run.
C23_ComparesWithPreceding ==
    PastCompare
       => IF EarlierRuns = {} THEN old_folder = NoFolder
          ELSE /\ old_folder = Preceding.name
               /\ FilesOf(old_pages) = Preceding.files

\* C24: list_crawl_folders returns exactly the snapshot directories that the
\* runs for the host of START_URL created, and none created for another
\* origin.
C24_ListsOwnSnapshots ==
    main_pc # "idle"
       => {list_crawl_folders(base_dir, site)[i] :
              i \in DOMAIN list_crawl_folders(base_dir, site)}
          = {history[i].name : i \in {j \in DOMAIN history :
                                         history[j].host = site}}

\* The filenames of the delivery attempts of this run, in the order made.
AttemptedFiles == [i \in DOMAIN sent |-> sent[i].json.filename]

\* C25: one delivery attempt per record of changes, in the order of the
\* list, which is ascending filename order; an attempt that fails or times
\* out is followed by the attempts for the remaining records, and by the
\* change summary in the snapshot directory.
C25_OneAttemptPerRecord ==
    /\ main_pc \in {"notify", "summary"}
          => /\ AttemptedFiles
                   = SubSeq([i \in DOMAIN changes |-> changes[i].filename],
                            1, Len(sent))
             /\ main_pc = "summary" => Len(sent) = Len(changes)
    /\ main_pc = "done" /\ changes # << >>
          => /\ AttemptedFiles = [i \in DOMAIN changes |-> changes[i].filename]
             /\ \A i, j \in DOMAIN sent :
                   i < j => Rank(AttemptedFiles[i]) < Rank(AttemptedFiles[j])
             /\ base_dir[DirIndex(base_dir, new_folder)].summary

\* Two records, the first delivery timed out, the second made and failed
\* too, and the summary written.
C25_Witness ==
    /\ main_pc = "done"
    /\ Len(changes) = 2
    /\ Len(sent) = 2
    /\ sent[1].outcome = "timeout"
    /\ sent[2].outcome = "request_error"
    /\ base_dir[DirIndex(base_dir, new_folder)].summary

\* C28: the records of the list detect_changes returned are what they were
\* when it returned, with the raw bytes of the new content, while and after
\* main sends them; once all are sent each record has been handed to
\* send_webhook_notification exactly once.
C28_RecordsNotMutated ==
    main_pc \in {"notify", "summary", "done"} /\ changes # << >>
       => /\ changes = detect_changes(old_pages, new_pages_data)
          /\ \A i \in DOMAIN changes :
                "content" \in DOMAIN changes[i]
                   => /\ changes[i].content
                            = Utf8Encode(Get(new_pages_data,
                                             changes[i].filename))
                      /\ "content_encoding" \notin DOMAIN changes[i]
          /\ main_pc \in {"summary", "done"}
                => \A i \in DOMAIN changes :
                      Cardinality({j \in DOMAIN sent :
                          sent[j].json.filename = changes[i].filename}) = 1

\* All records sent, one of them with its content encoded in the payload.
C28_Witness ==
    /\ main_pc = "done"
    /\ changes # << >>
    /\ \E i \in DOMAIN sent :
          /\ "content_encoding" \in DOMAIN sent[i].json
          /\ sent[i].json.content = B64Encode(changes[i].content)

\* C26: two runs never obtain the same snapshot directory, and the directory
\* of each run keeps the files that the run left in it.
C26_OwnDirectory ==
    /\ \A i, j \in DOMAIN history :
          i # j => history[i].name # history[j].name
    /\ \A i \in DOMAIN history :
          base_dir[DirIndex(base_dir, history[i].name)].files
             = history[i].files

\* The snapshot directories of the origin of the current run.
OwnSnapshots == {i \in DOMAIN base_dir : base_dir[i].name.host = site}

\* C34: with fewer than two snapshots of the origin after the run, main
\* compares nothing and attempts one 'added' notification for each file of
\* new_pages_data, in its order, and no other; with two or more, every
\* notification is the payload of the record of detect_changes at its
\* position.
C34_FirstCrawlAddsOnly ==
    PastCompare
       => IF Cardinality(OwnSnapshots) < 2
          THEN /\ old_folder = NoFolder
               /\ changes = << >>
               /\ \A i \in DOMAIN sent :
                     /\ i <= Len(new_pages_data)
                     /\ sent[i].json.type = CHANGE_TYPE_ADDED
                     /\ sent[i].json.filename = new_pages_data[i].k
               /\ main_pc = "done" => Len(sent) = Len(new_pages_data)
          ELSE /\ old_folder # NoFolder
               /\ changes = detect_changes(old_pages, new_pages_data)
               /\ \A i \in DOMAIN sent :
                     /\ i <= Len(changes)
                     /\ sent[i].json = EncodedPayload(FullPayload(changes[i]))

(***************************************************************************)
(* PROPERTIES OF compare_snapshots (specification SpecSnap)                *)
(***************************************************************************)
\* What was printed about a filename.
Reported(f) ==
    {printed[i].text : i \in {j \in DOMAIN printed : printed[j].filename = f}}

\* C35: when compare_snapshots has returned, every filename of the old or
\* the new directory has been reported: as deleted when it is in the old
\* directory only, as new when it is in the new directory only, and, when
\* it is in both, as changed exactly when the two contents differ.
C35_ClassifiesUnion ==
    snap_pc = "done"
       => \A f \in DOMAIN old_dir \cup DOMAIN new_dir :
             IF f \notin DOMAIN new_dir THEN Reported(f) = {"Deleted"}
             ELSE IF f \notin DOMAIN old_dir
                  THEN Reported(f) = {"New page detected"}
             ELSE IF old_dir[f] # new_dir[f]
                  THEN Reported(f) = {"Changes found"}
             ELSE Reported(f) = {"No changes"}

(***************************************************************************)
(* PROPERTIES OF generate_diffs (specification SpecDiffs)                  *)
(***************************************************************************)
\* C36: the filenames of the returned diffs are those that are in exactly
\* one of old_pages and new_pages, whatever the content, the empty string
\* included, and those in both with different contents; a filename in both
\* with equal contents is not among them.
C36_ReportsEveryDifference ==
    diffs_pc = "done"
       => \A f \in FileSet :
             f \in DOMAIN diffs
                <=> \/ f \in Keys(old_pages) /\ f \notin Keys(new_pages)
                    \/ f \notin Keys(old_pages) /\ f \in Keys(new_pages)
                    \/ /\ f \in Keys(old_pages) \cap Keys(new_pages)
                       /\ Get(old_pages, f) # Get(new_pages, f)

(***************************************************************************)
(* PROPERTIES OF THE RECURSIVE CRAWLER (specification SpecNew2)            *)
(***************************************************************************)
\* C37: every URL given to driver.get has the authority of the start URL;
\* a URL on another host is not fetched, even when its text contains the
\* start authority.
C37_OnlyStartAuthority == \A u \in got : u.netloc = domain

(***************************************************************************)
(* PROPERTIES OF detect_changes (specification SpecDetect)                 *)
(***************************************************************************)
RecordsOf(f) == {i \in DOMAIN changes : changes[i].filename = f}

\* The type detect_changes is to report for a filename, "none" for no record.
Expected(f) ==
    LET o == Get(old_pages, f)
        n == Get(new_pages, f)
    IN  IF o = None /\ n # None THEN CHANGE_TYPE_ADDED
        ELSE IF o # None /\ n = None THEN CHANGE_TYPE_DELETED
        ELSE IF o # None /\ n # None /\ o # n THEN CHANGE_TYPE_UPDATED
        ELSE "none"

\* C6: detect_changes yields exactly one record, of the right type, for each
\* filename only in new (added), only in old (deleted) or in both with
\* different content (updated), and none for any other filename.
C6_Classification ==
    detect_pc = "returned"
       => \A f \in FileSet :
             IF Expected(f) = "none" THEN RecordsOf(f) = {}
             ELSE /\ Cardinality(RecordsOf(f)) = 1
                  /\ \A i \in RecordsOf(f) : changes[i].type = Expected(f)

\* One call reported an added, an updated and a deleted file, one of them
\* with empty content on one side.
C6_Witness ==
    /\ detect_pc = "returned"
    /\ {changes[i].type : i \in DOMAIN changes}
          = {CHANGE_TYPE_ADDED, CHANGE_TYPE_UPDATED, CHANGE_TYPE_DELETED}
    /\ \E f \in FileSet : Get(old_pages, f) = "" \/ Get(new_pages, f) = ""

\* The two dicts hold the same entries, in whatever order.
SameMapping(d1, d2) ==
    Keys(d1) = Keys(d2) /\ \A f \in Keys(d1) : Get(d1, f) = Get(d2, f)

\* C7: every added or updated record carries the content of the new mapping
\* for its filename and every deleted record carries none; old {a.md: X},
\* new {a.md: Y, b.md: Z} yields [updated a.md Y, added b.md Z], and
\* old {a.md: X, c.md: Q}, new {a.md: X} yields [deleted c.md].
C7_RecordContent ==
    detect_pc = "returned"
       => /\ \A i \in DOMAIN changes :
                IF changes[i].type = CHANGE_TYPE_DELETED
                THEN DOMAIN changes[i] = {"type", "filename"}
                ELSE /\ DOMAIN changes[i] = {"type", "filename", "content"}
                     /\ changes[i].content
                           = Utf8Encode(Get(new_pages, changes[i].filename))
          /\ (/\ SameMapping(old_pages, << [k |-> "a.md", v |-> "X"] >>)
              /\ SameMapping(new_pages, << [k |-> "a.md", v |-> "Y"],
                                           [k |-> "b.md", v |-> "Z"] >>))
                => changes
                      = << [type |-> "updated", filename |-> "a.md",
                            content |-> Utf8Encode("Y")],
                           [type |-> "added", filename |-> "b.md",
                            content |-> Utf8Encode("Z")] >>
          /\ (/\ SameMapping(old_pages, << [k |-> "a.md", v |-> "X"],
                                           [k |-> "c.md", v |-> "Q"] >>)
              /\ SameMapping(new_pages, << [k |-> "a.md", v |-> "X"] >>))
                => changes = << [type |-> "deleted", filename |-> "c.md"] >>

\* The call of the first scenario has returned.
C7_Witness ==
    /\ detect_pc = "returned"
    /\ old_pages = << [k |-> "a.md", v |-> "X"] >>
    /\ new_pages = << [k |-> "b.md", v |-> "Z"], [k |-> "a.md", v |-> "Y"] >>
    /\ Len(changes) = 2

\* The dict with its entries inserted in ascending order of filename.
RECURSIVE DictOf(_, _)
DictOf(d, order) ==
    IF order = << >> THEN << >>
    ELSE << [k |-> Head(order), v |-> Get(d, Head(order))] >>
         \o DictOf(d, Tail(order))

SortedDict(d) == DictOf(d, sorted(Keys(d)))

\* C8: the records are in strictly ascending order of filename, and the
\* sequence is the one detect_changes yields for the same two mappings with
\* their entries inserted in another (the ascending) order.
C8_SortedAndOrderIndependent ==
    detect_pc = "returned"
       => /\ \A i, j \in DOMAIN changes :
                i < j => Rank(changes[i].filename) < Rank(changes[j].filename)
          /\ changes = detect_changes(SortedDict(old_pages), SortedDict(new_pages))

\* A call has returned two records for files that the new dict holds in
\* descending order of insertion.
C8_Witness ==
    /\ detect_pc = "returned"
    /\ Len(changes) >= 2
    /\ Len(new_pages) = 2
    /\ Rank(new_pages[1].k) > Rank(new_pages[2].k)
    /\ old_pages # SortedDict(old_pages)

\* C9: detect_changes(A, A) is the empty sequence.
C9_SelfDiffEmpty ==
    detect_pc = "returned" /\ SameMapping(old_pages, new_pages)
       => changes = << >>

\* A call on a dict of two entries and itself has returned.
C9_Witness ==
    /\ detect_pc = "returned"
    /\ old_pages = new_pages
    /\ Len(old_pages) = 2

(***************************************************************************)
(* PROPERTIES OF normalize_url (specification SpecNorm)                    *)
(***************************************************************************)
\* C10: normalizing the result of normalize_url(href, base) again, against
\* any base, returns the same URL.
C10_Idempotent == norm_pc = "done" => twice = once

=============================================================================
